---- MODULE Spec2Model ----
(***************************************************************************)
(* Verification model of the filament WebGPU render-pipeline cache         *)
(* (WebGPUPipelineCache.{h,cpp}): the Descriptor                           *)
(* WebGPURenderPipelineRequirements with its Hash and Equal functors, and  *)
(* the cache operations getOrCreateRenderPipeline, gc and the destructor.  *)
(***************************************************************************)
EXTENDS Integers, Sequences, FiniteSets, TLC

(***************************************************************************)
(* Bounds of the model.                                                    *)
(***************************************************************************)
\* capacity of the vertexAttributes array (MAX_VERTEX_ATTRIBUTE_COUNT slots)
MaxVertexAttributes == 2
\* capacity of the vertexBufferLayouts array (MAX_VERTEX_BUFFER_COUNT slots)
MaxVertexBuffers == 2
\* age limit L of the collector (FWGPU_PIPELINE_MAX_AGE generations)
FWGPU_PIPELINE_MAX_AGE == 2
\* number of gc() calls explored
MaxGcCount == 3
\* number of createRenderPipeline calls explored
MaxPipelines == 2

(***************************************************************************)
(* size_t arithmetic of utils::hash::combine, at a reduced word width.     *)
(***************************************************************************)
HashBits == 16
HashMod == 2 ^ HashBits
\* 0x9e3779b9 truncated to HashBits bits
GoldenRatio == 31161

RECURSIVE Xor(_, _)
Xor(x, y) ==
    IF x = 0 THEN y
    ELSE IF y = 0 THEN x
    ELSE (((x % 2) + (y % 2)) % 2) + (2 * Xor(x \div 2, y \div 2))

\* std::hash<T> of an integral, enum or pointer value, or of a name or a
\* floating-point value coded as a number: the value itself
StdHash(v) == v % HashMod

\* std::hash<bool>
StdHashBool(v) == IF v THEN 1 ELSE 0

\* seed ^= hasher(v) + 0x9e3779b9 + (seed << 6) + (seed >> 2), hv being hasher(v)
combine(seed, hv) ==
    Xor(seed, (hv + GoldenRatio + ((seed * 64) % HashMod) + (seed \div 4)) % HashMod)

\* hash::combine(h, v1, v2, ...): the values are combined left to right
\* (seed is a size_t, never negative: testing it first makes TLC compute the
\* running value at every step instead of building one deep expression)
RECURSIVE combineAll(_, _)
combineAll(seed, vs) ==
    IF seed < 0 \/ vs = << >> THEN seed
    ELSE combineAll(combine(seed, Head(vs)), Tail(vs))

(***************************************************************************)
(* The Descriptor: WebGPURenderPipelineRequirements.                       *)
(* Shader modules, pipeline layout: 0 is nullptr, other numbers are object *)
(* identities.  Enums and scalars are small numbers.  A ConstantEntry is   *)
(* [key, value]; keys are names coded as numbers.                          *)
(***************************************************************************)
\* wgpu::VertexAttribute, value-initialized
NoVertexAttribute == [format |-> 0, offset |-> 0, shaderLocation |-> 0]

\* wgpu::VertexBufferLayout, value-initialized (attributes points nowhere)
NoVertexBufferLayout ==
    [stepMode |-> 0, arrayStride |-> 0, attributeCount |-> 0, attributes |-> << >>]

NoBlendComponent == [operation |-> 0, srcFactor |-> 0, dstFactor |-> 0]

\* the default member initializers of the struct
DefaultRequirements ==
    [ vertexShaderModule     |-> 0,
      fragmentShaderModule   |-> 0,
      vertexAttributes       |-> [i \in 1..MaxVertexAttributes |-> NoVertexAttribute],
      vertexBufferLayouts    |-> [i \in 1..MaxVertexBuffers |-> NoVertexBufferLayout],
      vertexBufferCount      |-> 0,
      constants              |-> << >>,
      topology               |-> 0,
      cullMode               |-> 0,
      frontFace              |-> 0,
      blendEnable            |-> FALSE,
      depthWriteEnabled      |-> 0,
      alphaToCoverageEnabled |-> FALSE,
      blendState             |-> [color |-> NoBlendComponent, alpha |-> NoBlendComponent],
      colorWriteMask         |-> 15,
      multisampleCount       |-> 0,
      unclippedDepth         |-> FALSE,
      colorTargetCount       |-> 0,
      depthCompare           |-> 0,
      depthBias              |-> 0,
      depthBiasSlopeScale    |-> 0,
      layout                 |-> 0,
      colorFormat            |-> 0,
      depthFormat            |-> 0 ]

\* the scalar channels in the order Hash feeds them to hash::combine
ScalarValues(r) ==
    << StdHash(r.vertexShaderModule), StdHash(r.fragmentShaderModule),
       StdHash(r.vertexBufferCount), StdHash(r.topology), StdHash(r.cullMode),
       StdHash(r.frontFace), StdHashBool(r.blendEnable),
       StdHash(r.depthWriteEnabled), StdHashBool(r.alphaToCoverageEnabled),
       StdHash(r.blendState.color.operation), StdHash(r.blendState.color.srcFactor),
       StdHash(r.blendState.color.dstFactor),
       StdHash(r.blendState.alpha.operation), StdHash(r.blendState.alpha.srcFactor),
       StdHash(r.blendState.alpha.dstFactor),
       StdHash(r.colorWriteMask), StdHash(r.multisampleCount),
       StdHashBool(r.unclippedDepth), StdHash(r.colorTargetCount),
       StdHash(r.depthCompare), StdHash(r.depthBias),
       StdHash(r.depthBiasSlopeScale), StdHash(r.layout),
       StdHash(r.colorFormat), StdHash(r.depthFormat) >>

\* one vertex attribute as fed to hash::combine
AttributeValues(a) ==
    << StdHash(a.format), StdHash(a.offset), StdHash(a.shaderLocation) >>

\* the loop over all slots of r.vertexAttributes
RECURSIVE HashVertexAttributes(_, _, _)
HashVertexAttributes(h, attrs, i) ==
    IF i > Len(attrs) THEN h
    ELSE HashVertexAttributes(combineAll(h, AttributeValues(attrs[i])), attrs, i + 1)

\* the inner loop over the first attributeCount attributes of one layout
RECURSIVE HashLayoutAttributes(_, _, _)
HashLayoutAttributes(h, vbLayout, attrIndex) ==
    IF attrIndex > vbLayout.attributeCount THEN h
    ELSE HashLayoutAttributes(
            combineAll(h, AttributeValues(vbLayout.attributes[attrIndex])),
            vbLayout, attrIndex + 1)

\* a loop over every slot of r.vertexBufferLayouts
RECURSIVE HashEveryVertexBufferLayout(_, _, _)
HashEveryVertexBufferLayout(h, r, i) ==
    IF i > MaxVertexBuffers THEN h
    ELSE LET vbLayout == r.vertexBufferLayouts[i]
             h1 == combineAll(h, << StdHash(vbLayout.stepMode),
                                    StdHash(vbLayout.arrayStride),
                                    StdHash(vbLayout.attributeCount) >>)
         IN  HashEveryVertexBufferLayout(HashLayoutAttributes(h1, vbLayout, 1), r, i + 1)

\* the loop over the first vertexBufferCount layouts
RECURSIVE HashVertexBufferLayouts(_, _, _)
HashVertexBufferLayouts(h, r, i) ==
    IF i > r.vertexBufferCount THEN h
    ELSE LET vbLayout == r.vertexBufferLayouts[i]
             h1 == combineAll(h, << StdHash(vbLayout.stepMode),
                                    StdHash(vbLayout.arrayStride),
                                    StdHash(vbLayout.attributeCount) >>)
         IN  HashVertexBufferLayouts(HashLayoutAttributes(h1, vbLayout, 1), r, i + 1)

\* the loop over all specialization constants
RECURSIVE HashConstants(_, _, _)
HashConstants(h, constants, i) ==
    IF i > Len(constants) THEN h
    ELSE HashConstants(combineAll(h, << StdHash(constants[i].key),
                                        StdHash(constants[i].value) >>),
                       constants, i + 1)

\* WebGPURenderPipelineRequirements::Hash::operator()
Hash(r) ==
    LET h1 == combineAll(0, ScalarValues(r))
        h2 == HashVertexAttributes(h1, r.vertexAttributes, 1)
        h3 == HashVertexBufferLayouts(h2, r, 1)
    IN  HashConstants(h3, r.constants, 1)

\* the three member comparisons made for a pair of vertex attributes
VertexAttributeMatch(firstVAttr, secondVAttr) ==
    /\ firstVAttr.format = secondVAttr.format
    /\ firstVAttr.offset = secondVAttr.offset
    /\ firstVAttr.shaderLocation = secondVAttr.shaderLocation

\* const bool scalarsMatch = ...
scalarsMatch(first, second) ==
    /\ first.vertexShaderModule = second.vertexShaderModule
    /\ first.fragmentShaderModule = second.fragmentShaderModule
    /\ first.vertexBufferCount = second.vertexBufferCount
    /\ first.topology = second.topology
    /\ first.cullMode = second.cullMode
    /\ first.frontFace = second.frontFace
    /\ first.blendEnable = second.blendEnable
    /\ first.depthWriteEnabled = second.depthWriteEnabled
    /\ first.alphaToCoverageEnabled = second.alphaToCoverageEnabled
    /\ first.blendState.color.operation = second.blendState.color.operation
    /\ first.blendState.color.srcFactor = second.blendState.color.srcFactor
    /\ first.blendState.color.dstFactor = second.blendState.color.dstFactor
    /\ first.blendState.alpha.operation = second.blendState.alpha.operation
    /\ first.blendState.alpha.srcFactor = second.blendState.alpha.srcFactor
    /\ first.blendState.alpha.dstFactor = second.blendState.alpha.dstFactor
    /\ first.colorWriteMask = second.colorWriteMask
    /\ first.multisampleCount = second.multisampleCount
    /\ first.unclippedDepth = second.unclippedDepth
    /\ first.colorTargetCount = second.colorTargetCount
    /\ first.depthCompare = second.depthCompare
    /\ first.depthBias = second.depthBias
    /\ first.depthBiasSlopeScale = second.depthBiasSlopeScale
    /\ first.layout = second.layout
    /\ first.colorFormat = second.colorFormat
    /\ first.depthFormat = second.depthFormat

\* the comparison of the constants lists, size first, then entry by entry
ConstantsMatch(first, second) ==
    /\ Len(first.constants) = Len(second.constants)
    /\ \A constIndex \in 1..Len(first.constants) :
          /\ first.constants[constIndex].key = second.constants[constIndex].key
          /\ first.constants[constIndex].value = second.constants[constIndex].value

\* one iteration of the loop over the active vertex buffer layouts; the
\* constants are compared inside that loop body
VertexBufferLayoutMatch(first, second, vblIndex) ==
    LET firstVBLayout == first.vertexBufferLayouts[vblIndex]
        secondVBLayout == second.vertexBufferLayouts[vblIndex]
    IN  /\ firstVBLayout.stepMode = secondVBLayout.stepMode
        /\ firstVBLayout.arrayStride = secondVBLayout.arrayStride
        /\ firstVBLayout.attributeCount = secondVBLayout.attributeCount
        /\ \A vAttrIndex \in 1..firstVBLayout.attributeCount :
              VertexAttributeMatch(firstVBLayout.attributes[vAttrIndex],
                                   secondVBLayout.attributes[vAttrIndex])
        /\ ConstantsMatch(first, second)

\* WebGPURenderPipelineRequirements::Equal::operator()
Equal(first, second) ==
    IF ~scalarsMatch(first, second) THEN FALSE
    ELSE /\ \A vAttrIndex \in 1..Len(first.vertexAttributes) :
               VertexAttributeMatch(first.vertexAttributes[vAttrIndex],
                                    second.vertexAttributes[vAttrIndex])
         /\ \A vblIndex \in 1..first.vertexBufferCount :
               VertexBufferLayoutMatch(first, second, vblIndex)

(***************************************************************************)
(* Descriptors used as inputs.                                             *)
(***************************************************************************)
Attribute(f, o, l) == [format |-> f, offset |-> o, shaderLocation |-> l]
Constant(k, v) == [key |-> k, value |-> v]

\* a fully populated Descriptor: one active vertex buffer with one active
\* attribute (the array its layout points to holds a second, unused one),
\* no specialization constants
BaseRequirements ==
    [ DefaultRequirements EXCEPT
        !.vertexShaderModule = 1,
        !.fragmentShaderModule = 2,
        !.layout = 1,
        !.vertexAttributes[1] = Attribute(1, 0, 0),
        !.vertexBufferLayouts[1] =
            [stepMode |-> 1, arrayStride |-> 12, attributeCount |-> 1,
             attributes |-> << Attribute(1, 0, 0), Attribute(2, 4, 1) >>],
        !.vertexBufferCount = 1,
        !.topology = 4,
        !.cullMode = 1,
        !.frontFace = 1,
        !.depthWriteEnabled = 1,
        !.multisampleCount = 1,
        !.colorTargetCount = 1,
        !.depthCompare = 2,
        !.colorFormat = 18,
        !.depthFormat = 40 ]

\* BaseRequirements with no active vertex buffer
BufferlessRequirements == [BaseRequirements EXCEPT !.vertexBufferCount = 0]

\* every Descriptor that differs from r in exactly one scalar channel
ScalarVariants(r) ==
    { [r EXCEPT !.vertexShaderModule = 3],
      [r EXCEPT !.fragmentShaderModule = 0],
      [r EXCEPT !.topology = 3],
      [r EXCEPT !.cullMode = 2],
      [r EXCEPT !.frontFace = 2],
      [r EXCEPT !.blendEnable = TRUE],
      [r EXCEPT !.depthWriteEnabled = 2],
      [r EXCEPT !.alphaToCoverageEnabled = TRUE],
      [r EXCEPT !.blendState.color.operation = 1],
      [r EXCEPT !.blendState.color.srcFactor = 1],
      [r EXCEPT !.blendState.color.dstFactor = 1],
      [r EXCEPT !.blendState.alpha.operation = 1],
      [r EXCEPT !.blendState.alpha.srcFactor = 1],
      [r EXCEPT !.blendState.alpha.dstFactor = 1],
      [r EXCEPT !.colorWriteMask = 7],
      [r EXCEPT !.multisampleCount = 4],
      [r EXCEPT !.unclippedDepth = TRUE],
      [r EXCEPT !.colorTargetCount = 2],
      [r EXCEPT !.depthCompare = 3],
      [r EXCEPT !.depthBias = 1],
      [r EXCEPT !.depthBiasSlopeScale = 1],
      [r EXCEPT !.layout = 2],
      [r EXCEPT !.colorFormat = 19],
      [r EXCEPT !.depthFormat = 41] }

\* Descriptors that differ from r in one member of the vertex attribute array
\* or of the vertex buffer layout array, in an active or in an unused slot
CollectionVariants(r) ==
    { [r EXCEPT !.vertexAttributes[1].format = 2],
      [r EXCEPT !.vertexAttributes[1].offset = 4],
      [r EXCEPT !.vertexAttributes[1].shaderLocation = 1],
      [r EXCEPT !.vertexAttributes[MaxVertexAttributes].format = 2],
      [r EXCEPT !.vertexAttributes[MaxVertexAttributes].offset = 4],
      [r EXCEPT !.vertexAttributes[MaxVertexAttributes].shaderLocation = 1],
      [r EXCEPT !.vertexBufferLayouts[1].stepMode = 2],
      [r EXCEPT !.vertexBufferLayouts[1].arrayStride = 16],
      [r EXCEPT !.vertexBufferLayouts[1].attributeCount = 2],
      [r EXCEPT !.vertexBufferLayouts[1].attributes[1].format = 3],
      [r EXCEPT !.vertexBufferLayouts[1].attributes[1].offset = 8],
      [r EXCEPT !.vertexBufferLayouts[1].attributes[1].shaderLocation = 2],
      [r EXCEPT !.vertexBufferLayouts[1].attributes[2].format = 3],
      [r EXCEPT !.vertexBufferLayouts[MaxVertexBuffers].stepMode = 2],
      [r EXCEPT !.vertexBufferLayouts[MaxVertexBuffers].arrayStride = 16],
      [r EXCEPT !.vertexBufferCount = MaxVertexBuffers] }

\* the specialization-constant lists tried
ConstantLists ==
    { << >>,
      << Constant(1, 0) >>,
      << Constant(1, 1) >>,
      << Constant(2, 0) >>,
      << Constant(1, 0), Constant(2, 1) >>,
      << Constant(2, 1), Constant(1, 0) >> }

ConstantVariants(r) == { [r EXCEPT !.constants = cs] : cs \in ConstantLists }

\* the Descriptors the identity functions are exercised on
IdentityInputs ==
    ScalarVariants(BaseRequirements) \cup CollectionVariants(BaseRequirements)
        \cup ConstantVariants(BaseRequirements)
        \cup ConstantVariants(BufferlessRequirements)

\* the Descriptors the cache is driven with: two bufferless Descriptors
\* without a fragment shader that differ only in the value of their one
\* specialization constant, and one that differs from the first only in
\* cullMode.  The cache state names a Descriptor by its position in this list.
CacheInputs ==
    << [BufferlessRequirements EXCEPT !.constants = << Constant(1, 0) >>,
                                      !.fragmentShaderModule = 0],
       [BufferlessRequirements EXCEPT !.constants = << Constant(1, 1) >>,
                                      !.fragmentShaderModule = 0],
       [BufferlessRequirements EXCEPT !.constants = << Constant(1, 0) >>,
                                      !.fragmentShaderModule = 0,
                                      !.cullMode = 2] >>

Descriptors == DOMAIN CacheInputs

\* these, the first of them without its vertex shader module, and the first
\* of them with a fragment shader module
PermittedInputs ==
    CacheInputs \o << [CacheInputs[1] EXCEPT !.vertexShaderModule = 0],
                      [CacheInputs[1] EXCEPT !.fragmentShaderModule = 2] >>

PermittedDescriptors == DOMAIN PermittedInputs

\* Hash and Equal of these Descriptors, computed once
HashOf == [r \in PermittedDescriptors |-> Hash(PermittedInputs[r])]
EqualOf == [k \in PermittedDescriptors |-> [r \in PermittedDescriptors |->
                Equal(PermittedInputs[k], PermittedInputs[r])]]

(***************************************************************************)
(* State.                                                                  *)
(*   mGcCount, mRenderPipelines : the members of WebGPUPipelineCache; the  *)
(*       map is a function from the stored keys to RenderPipelineCacheEntry*)
(*   alive       : FALSE once the destructor has run                       *)
(*   device      : the number of CreateRenderPipeline calls the device has *)
(*       served; the n-th call returns pipeline n, or nullptr (0)          *)
(*   released    : the pipelines whose owning entry has been destroyed     *)
(*   history     : per stored key, the Descriptor its pipeline was built   *)
(*       from, the generation in which its entry was created and the       *)
(*       generation of its last lookup hit (-1: none)                      *)
(*   last        : what the last call was, what the device built for it    *)
(*       (built) and what it returned                                      *)
(*   identity    : the pair of Descriptors handed to Hash and Equal and    *)
(*       the results                                                       *)
(*   calls       : per caller, the getOrCreateRenderPipeline call it is in *)
(*       when calls are not serialized: its position, its locals and its   *)
(*       return value                                                      *)
(***************************************************************************)
VARIABLES mGcCount, mRenderPipelines, alive, device, released, history, last,
          identity, calls

(***************************************************************************)
(* State of the OpenGL blob cache.                                         *)
(*   mCachingSupported : the member of OpenGLBlobCache                     *)
(*   platform    : the Platform: whether it has a retrieve and an insert   *)
(*       function, and the blob store behind them, a function from the     *)
(*       stored keys to the stored values                                  *)
(*   gl          : the GL context: its error flag, the number of programs  *)
(*       glCreateProgram has created and the programs not deleted          *)
(*   blobCall    : what the last call on the blob cache was, with its      *)
(*       arguments, the platform and driver calls it made and its outputs  *)
(***************************************************************************)
VARIABLES mCachingSupported, platform, gl, blobCall

(***************************************************************************)
(* State of shader-module construction.                                    *)
(*   shaderCall  : what the last createShaderModule call was given, what   *)
(*       the device and the wait answered, what it logged and how it ended *)
(*   wgpuProgram : the WGPUProgram a run constructs: the Program given,    *)
(*       the constants by id, and for each stage the source handed to the  *)
(*       device and the module built                                       *)
(***************************************************************************)
VARIABLES shaderCall, wgpuProgram

(***************************************************************************)
(* State of the caller of the pipeline cache.                              *)
(*   memory      : the caller's objects that Descriptors point at, the     *)
(*       vertex attribute arrays and the constant names, by address: the   *)
(*       value held and whether the object is alive                        *)
(***************************************************************************)
VARIABLES memory

(***************************************************************************)
(* State of the helpers of the WebGPU handles.                             *)
(*   handleCall  : what the last call of getVertexFormat or                *)
(*       convertConstants was given and what it returned                   *)
(***************************************************************************)
VARIABLES handleCall

(***************************************************************************)
(* State of the shader transformer.                                        *)
(*   transformCall : what the last ShaderTransformer::transform call read, *)
(*       what each stage produced and how the call ended                   *)
(*   out         : the output stream given to transform: the texts written *)
(*       to it, in order                                                   *)
(***************************************************************************)
VARIABLES transformCall, out

(***************************************************************************)
(* State of a texture.                                                     *)
(*   texture     : the members of the FTexture and what its last operation *)
(*       was                                                               *)
(*   driver      : the driver's texture handles: how many were created,    *)
(*       which are alive, which the texture created, and the destroy calls *)
(*       made on a handle that was not alive                               *)
(***************************************************************************)
VARIABLES texture, driver

blobVars == << mCachingSupported, platform, gl, blobCall >>

handleVars == << handleCall >>

toolVars == << transformCall, out >>

textureVars == << texture, driver >>

programVars == << shaderCall, wgpuProgram >>

vars == << mGcCount, mRenderPipelines, alive, device, released, history, last,
           identity, calls, memory, blobVars, programVars, handleVars, toolVars,
           textureVars >>

cacheVars == << mGcCount, mRenderPipelines, alive, device, released, history, last >>

pipelineVars == << cacheVars, identity, calls, memory >>

NoCall ==
    [op |-> "none", reqs |-> 0, found |-> {}, constructed |-> FALSE,
     built |-> 0, result |-> 0, erased |-> {}]

NoIdentity ==
    [first |-> DefaultRequirements, second |-> DefaultRequirements, done |-> FALSE,
     equal |-> FALSE, hashFirst |-> 0, hashSecond |-> 0]

(***************************************************************************)
(* Values of the OpenGL blob cache.  Sizes are size_t values of SizeTBits   *)
(* bits; the 64 KiB of DEFAULT_BLOB_SIZE are scaled down with them.         *)
(***************************************************************************)
\* the width of size_t and of GLsizei (signed)
SizeTBits == 6
GLsizeiBits == 5

SizeTMod == 2 ^ SizeTBits

\* a value converted to size_t
ToSizeT(n) == n % SizeTMod

\* GLsizei(n): the size_t value n narrowed to the signed type
ToGLsizei(n) ==
    LET low == n % (2 ^ GLsizeiBits)
    IN  IF low >= 2 ^ (GLsizeiBits - 1) THEN low - 2 ^ GLsizeiBits ELSE low

\* sizeof(Blob): the format tag in front of the program binary
SizeofBlob == 4

\* retrieve's first buffer
DEFAULT_BLOB_SIZE == 8

\* the longest program binary the driver hands out
MaxBinarySize == 6

\* glGetError values
GL_NO_ERROR == 0
GL_INVALID_VALUE == 1281
GL_INVALID_OPERATION == 1282

\* the binary formats of the driver
BinaryFormats == {1, 2}

\* Program: the members the blob cache reads
Program(cacheId, specializationConstants, name) ==
    [cacheId |-> cacheId, specializationConstants |-> specializationConstants,
     name |-> name]

Programs ==
    {Program(1, << >>, "a"), Program(2, << 1 >>, "b"), Program(1, << >>, "c")}

\* a key made of the cache id alone
BlobCacheKeyById(id, specConstants) == << id >>

\* BlobCacheKey{ id, specConstants }: the cache id followed by the
\* specialization constants
BlobCacheKey(id, specConstants) == << id >> \o specConstants

\* a default-constructed BlobCacheKey
EmptyKey == << >>

\* a stored value: a Blob of size bytes, format tag first
StoredBlob(size, format) == [size |-> size, format |-> format]

\* the content of a buffer nothing has been written to
Uninitialized == [size |-> 0, format |-> 0]

\* a null Blob::Ptr
NullBlob == [null |-> TRUE, capacity |-> 0, content |-> Uninitialized]

\* Blob::create(size): a buffer of size bytes
BlobCreate(size) == [null |-> FALSE, capacity |-> size, content |-> Uninitialized]

\* Platform::retrieveBlob(key, keySize, value, valueSize) on a blob store: the
\* size it reports and the buffer afterwards.  The value is copied into the
\* buffer when it fits; a stored size of -1 stands for a retrieve function
\* that reports -1 for the key
retrieveBlob(store, key, value, valueSize) ==
    IF key \notin DOMAIN store
    THEN [size |-> 0, delivered |-> Uninitialized, value |-> value]
    ELSE [size |-> ToSizeT(store[key].size),
          delivered |-> store[key],
          value |-> IF 0 < store[key].size /\ store[key].size <= valueSize
                    THEN [value EXCEPT !.content = store[key]]
                    ELSE value]

\* Platform::insertBlob(key, keySize, value, valueSize) on a blob store
insertBlob(store, key, format, valueSize) ==
    [k \in DOMAIN store \cup {key} |->
        IF k = key THEN StoredBlob(valueSize, format) ELSE store[k]]

\* the values another process may store under a key between two calls
InterferingBlobs ==
    {StoredBlob(DEFAULT_BLOB_SIZE - 2, 1), StoredBlob(DEFAULT_BLOB_SIZE + 2, 2),
     StoredBlob(DEFAULT_BLOB_SIZE + 4, 1)}

\* the blob store after what another process may do to the value of key
\* between two calls: nothing, remove it, or replace it
Interference(store, key) ==
    {store}
      \cup {[k \in DOMAIN store \ {key} |-> store[k]]}
      \cup {[k \in DOMAIN store \cup {key} |-> IF k = key THEN v ELSE store[k]] :
               v \in InterferingBlobs}

\* the blob stores a process may find at start: empty, or a value under the
\* key of one program, shorter than a Blob header, fitting the first buffer,
\* larger than it, or reported as -1
InitialStores ==
    {<< >>}
      \cup {(BlobCacheKey(1, << >>) :> v) :
               v \in {StoredBlob(-1, 0), StoredBlob(SizeofBlob - 2, 1),
                      StoredBlob(SizeofBlob + 2, 1),
                      StoredBlob(DEFAULT_BLOB_SIZE + 2, 1)}}

\* the value of the caller's size variable before a call
PriorSize == 5

\* the record of a blob cache call, before any call
NoBlobCall ==
    [op |-> "none", program |-> Program(0, << >>, ""),
     outKeyGiven |-> FALSE, outSizeGiven |-> FALSE,
     outKey |-> EmptyKey, outSize |-> PriorSize, blob |-> NullBlob,
     retrieveCalls |-> << >>,
     blobSize |-> 0, programBinarySize |-> 0, pendingError |-> GL_NO_ERROR,
     created |-> 0, loadError |-> GL_NO_ERROR, linked |-> FALSE,
     deleted |-> << >>, logged |-> FALSE, programId |-> 0,
     key |-> EmptyKey, sizeQueries |-> 0, binaryFormat |-> 0,
     insertCalls |-> << >>, afterMiss |-> FALSE, inserted |-> << >>]

\* the blob cache variables while no blob cache is in use
IdleBlobCache ==
    /\ mCachingSupported = FALSE
    /\ platform = [hasRetrieveBlobFunc |-> FALSE, hasInsertBlobFunc |-> FALSE,
                   store |-> << >>]
    /\ gl = [error |-> GL_NO_ERROR, created |-> 0, live |-> {}]
    /\ blobCall = NoBlobCall

\* the callers of a cache whose calls are not serialized
(***************************************************************************)
(* Values of shader-module construction.                                   *)
(***************************************************************************)
\* the compilation messages one shader is given at most
MaxMessages == 2

\* wgpu::CompilationMessageType
CompilationMessageTypes == {"Info", "Warning", "Error"}

\* the message lists of a wgpu::CompilationInfo
RECURSIVE MessageLists(_)
MessageLists(n) ==
    IF n = 0 THEN {<< >>}
    ELSE LET shorter == MessageLists(n - 1)
         IN  shorter \cup {Append(m, t) : m \in {l \in shorter : Len(l) = n - 1},
                                          t \in CompilationMessageTypes}

\* the shader sources of one stage: none, WGSL text, and WGSL text with a
\* specialization-constant prefix that no '_' or ';' follows
ShaderSources == {"empty", "wgsl", "malformed"}

\* ShaderStage
ShaderStages == {"vertex", "fragment", "compute"}

\* the record of a createShaderModule call, before any call
NoShaderCall ==
    [op |-> "none", name |-> "", stage |-> "", source |-> "empty",
     hasSpecConstants |-> FALSE, module |-> 0, waitStatus |-> "none",
     callbackStatus |-> "none", messages |-> << >>, log |-> << >>,
     panic |-> "", returned |-> FALSE]

\* std::variant<int32_t, float, bool>: the alternative held and its value;
\* a float is named by the integer it equals, a bool by 1 (true) or 0
Int32(v) == [type |-> "int32", value |-> v]
Float(v) == [type |-> "float", value |-> v]
Bool(v) == [type |-> "bool", value |-> v]

\* Program::SpecializationConstant
SpecializationConstant(id, value) == [id |-> id, value |-> value]

\* a WGSL literal as written: a number with its suffix ("i", "f" or none),
\* or one of the words true and false
NumberLiteral(number, suffix) == [number |-> number, suffix |-> suffix]
WordLiteral(word) == [number |-> 0, suffix |-> word]

\* the statements of a WGSL source, as far as replaceSpecConstants tells them
\* apart: text without the FILAMENT_SPEC_CONST_ prefix; a declaration
\* FILAMENT_SPEC_CONST_<id>_<name> = <value>; with or without ": type"
\* before the '='; a statement that names a constant and holds no '=' after
\* the name; the prefix with no '_' or no ';' after it
Text == [kind |-> "text"]
Declaration(id, typed, literal) ==
    [kind |-> "declaration", id |-> id, typed |-> typed, literal |-> literal]
Use(id) == [kind |-> "use", id |-> id]
Truncated == [kind |-> "truncated"]

\* the sources of one stage: none; a source that declares the constants 0
\* and 1 and uses them; one that declares constant 0 with a type; one that
\* breaks off inside a declaration
StageSources ==
    {<< >>,
     << Text, Declaration(0, FALSE, NumberLiteral(5, "")),
        Declaration(1, TRUE, NumberLiteral(2, "f")),
        Declaration(2, TRUE, WordLiteral("false")), Use(1), Text >>,
     << Declaration(0, TRUE, NumberLiteral(42, "i")), Use(0) >>,
     << Declaration(1, FALSE, NumberLiteral(3, "")), Truncated >>}

\* the constants of a Program, at most one for an id
SpecConstantLists ==
    {<< >>}
      \cup {<< SpecializationConstant(0, v) >> : v \in {Int32(7), Bool(1)}}
      \cup {<< SpecializationConstant(1, v) >> : v \in {Float(1234567), Int32(-3)}}
      \cup {<< SpecializationConstant(1, Float(999999)),
               SpecializationConstant(2, Bool(1)) >>,
            << SpecializationConstant(2, Bool(0)),
               SpecializationConstant(0, Int32(42)) >>}

\* the Programs a WGPUProgram is built from
WGPUPrograms ==
    {[name |-> "a", specializationConstants |-> constants,
      shadersSource |-> [vertex |-> v, fragment |-> f, compute |-> c]] :
        constants \in SpecConstantLists, v \in StageSources, f \in StageSources,
        c \in {<< >>, << Declaration(0, TRUE, NumberLiteral(42, "i")), Use(0) >>}}

\* a stage no createShaderModule call was made for
NotBuilt == [built |-> FALSE, processedShaderSource |-> << >>, selfTest |-> "none",
             module |-> 0, panic |-> ""]

\* before the constructor has run
NoWGPUProgram ==
    [constructed |-> FALSE, aborted |-> FALSE, name |-> "",
     given |-> << >>, specConstants |-> << >>,
     stages |-> [stage \in ShaderStages |-> NotBuilt]]

\* no shader module is under construction
IdleProgram == shaderCall = NoShaderCall /\ wgpuProgram = NoWGPUProgram

\* the record of a call of a handle helper, before any call
NoHandleCall ==
    [op |-> "none", type |-> "", normalized |-> FALSE, integer |-> FALSE,
     format |-> "", panic |-> FALSE, constantsInfo |-> << >>, constants |-> << >>]

\* no handle helper has been called
IdleHandles == handleCall = NoHandleCall

\* the record of a transform call, before any call
NoTransformCall ==
    [op |-> "none", originalGlsl |-> "", spirv |-> 0, modifiedSpirv |-> 0,
     log |-> << >>, ended |-> "none", result |-> FALSE]

\* transform has not been called and nothing has been written
IdleTransformer == transformCall = NoTransformCall /\ out = << >>

\* a null Handle<HwTexture>
NullHandle == 0

\* FTexture::LodRange
LodRange(first, onePastLast) == [first |-> first, last |-> onePastLast]

\* before a texture is built
NoTexture ==
    [op |-> "none", built |-> FALSE, terminated |-> FALSE, panic |-> FALSE,
     mExternal |-> FALSE, mTextureIsSwizzled |-> FALSE, imported |-> FALSE,
     mTarget |-> "", mLevelCount |-> 0, mWidth |-> 0, mHeight |-> 0,
     sampleable |-> FALSE, uploadable |-> FALSE, mStream |-> FALSE,
     mHandle |-> NullHandle, mHandleForSampling |-> NullHandle,
     mLodRange |-> LodRange(0, 0), mActiveLodRange |-> LodRange(0, 0),
     assertions |-> FALSE, asserted |-> TRUE, result |-> NullHandle]

\* a driver that has created no texture handle
NoDriverHandles ==
    [created |-> 0, live |-> {}, owned |-> {}, destroyedDead |-> {}]

\* no texture exists
IdleTexture == texture = NoTexture /\ driver = NoDriverHandles

\* nothing but the component under study is in use
IdleUnits == IdleHandles /\ IdleTransformer /\ IdleTexture

Callers == {1, 2}

\* a caller that is in no call
NoCallInProgress ==
    [pc |-> "idle", reqs |-> 0, seen |-> {}, callNo |-> 0, pipeline |-> 0,
     emplaced |-> FALSE, discarded |-> 0, result |-> 0]

\* no caller data is pointed at
NoCallerData == << >>

\* WebGPUPipelineCache() = default, with the member initializers
InitCache ==
    /\ mGcCount = 0
    /\ mRenderPipelines = << >>
    /\ alive = TRUE
    /\ device = 0
    /\ released = {}
    /\ history = << >>
    /\ last = NoCall
    /\ calls = [t \in Callers |-> NoCallInProgress]

(***************************************************************************)
(* The identity functions applied to a pair of Descriptors.                *)
(***************************************************************************)
InitIdentity ==
    /\ InitCache
    /\ memory = NoCallerData
    /\ IdleBlobCache
    /\ IdleProgram
    /\ IdleUnits
    /\ \E a \in IdentityInputs, b \in IdentityInputs :
          identity = [NoIdentity EXCEPT !.first = a, !.second = b]

ApplyIdentity ==
    /\ ~identity.done
    /\ identity' = [identity EXCEPT
                      !.done = TRUE,
                      !.equal = Equal(identity.first, identity.second),
                      !.hashFirst = Hash(identity.first),
                      !.hashSecond = Hash(identity.second)]
    /\ UNCHANGED << cacheVars, calls, blobVars, programVars,
                    handleVars, toolVars, textureVars, memory >>

NextIdentity == ApplyIdentity

SpecIdentity == InitIdentity /\ [][NextIdentity]_vars

(***************************************************************************)
(* The cache operations.                                                   *)
(***************************************************************************)
\* mRenderPipelines.find(reqs): the set holding the key the returned iterator
\* points at, or the empty set for end().  The probe starts at the bucket of
\* Hash(reqs) and stops at the first stored key k with Equal(k, reqs).  A
\* stored key with the hash of reqs lies on the probe path, so the probe ends
\* at an Equal key whenever one with that hash is stored; a stored key that is
\* Equal to reqs but has another hash lies on the path or not, depending on
\* the bucket layout.
find(map, reqs) ==
    LET equalKeys == {k \in DOMAIN map : EqualOf[k][reqs]}
        sameHash == {k \in equalKeys : HashOf[k] = HashOf[reqs]}
    IN  {{k} : k \in equalKeys} \cup (IF sameHash = {} THEN {{}} ELSE {})

\* in place of a pipeline: the process was terminated inside the call
Panic == -1

\* assert_invariant(r.layout); assert_invariant(r.vertexShaderModule)
InvariantsAsserted(r) == r.layout # 0 /\ r.vertexShaderModule # 0

\* descriptor.fragment = &fragmentState: fragmentState and colorTargets are
\* locals of the block that is left before the device reads the descriptor
FragmentStateDangles(r) == r.fragmentShaderModule # 0

\* createRenderPipeline(device, r), the device call being number n: a new
\* pipeline object, or nullptr when the device fails to build one.  When an
\* asserted condition is false the build with assertions terminates the
\* process and the build without hands the device what it was given; what
\* the device reads through a dangling pointer is intact, or rejected, or
\* brings the process down.
createRenderPipeline(r, n) ==
    {0, n} \cup (IF InvariantsAsserted(r) /\ ~FragmentStateDangles(r)
                 THEN {}
                 ELSE {Panic})

\* emplace as an insertion that replaces the stored keys Equal to reqs
emplaceReplacingEqual(map, reqs, cacheEntry, iter) ==
    LET others == {k \in DOMAIN map : ~EqualOf[k][reqs]}
    IN  [k \in others \cup {reqs} |-> IF k = reqs THEN cacheEntry ELSE map[k]]

\* emplace as an insertion that first drops the entries at the age limit
emplaceEvictingOldest(map, reqs, cacheEntry, iter) ==
    LET young == {k \in DOMAIN map :
                     mGcCount < map[k].lastGcCountWhenUsed + FWGPU_PIPELINE_MAX_AGE}
    IN  [k \in young \cup {reqs} |-> IF k = reqs THEN cacheEntry ELSE map[k]]

\* emplace as an assignment: the entry given replaces the mapping of reqs
emplaceOverwriting(map, reqs, cacheEntry, iter) ==
    [k \in DOMAIN map \cup {reqs} |-> IF k = reqs THEN cacheEntry ELSE map[k]]

\* mRenderPipelines.emplace(reqs, cacheEntry), iter being the outcome of the
\* map's probe for reqs: an existing mapping is kept, not overwritten
emplace(map, reqs, cacheEntry, iter) ==
    IF iter # {} THEN map
    ELSE [k \in DOMAIN map \cup {reqs} |-> IF k = reqs THEN cacheEntry ELSE map[k]]

\* the entry getOrCreateRenderPipeline builds on a miss
NewCacheEntry(pipeline) == [pipeline |-> pipeline, lastGcCountWhenUsed |-> 0]

\* a hit that leaves the stamp as it was
HitStampStale(cacheEntry) == cacheEntry

\* a hit that stamps the entry as the miss path does
HitStampZero(cacheEntry) == [cacheEntry EXCEPT !.lastGcCountWhenUsed = 0]

\* a hit that stamps the entry with the generation to come
HitStampNext(cacheEntry) == [cacheEntry EXCEPT !.lastGcCountWhenUsed = mGcCount + 1]

\* the stamp written into the entry on a hit
HitStamp(cacheEntry) == [cacheEntry EXCEPT !.lastGcCountWhenUsed = mGcCount]

\* WebGPUPipelineCache::getOrCreateRenderPipeline
getOrCreateRenderPipeline(reqs) ==
    /\ alive
    /\ \E pipelineIter \in find(mRenderPipelines, reqs) :
          IF pipelineIter # {}
          THEN \* pipeline is already in the cache
               LET key == CHOOSE k \in pipelineIter : TRUE IN
               /\ mRenderPipelines' =
                     [mRenderPipelines EXCEPT ![key] = HitStamp(mRenderPipelines[key])]
               /\ history' = [history EXCEPT ![key].hitAt = mGcCount]
               /\ last' = [NoCall EXCEPT !.op = "getOrCreate", !.reqs = reqs,
                                         !.found = pipelineIter,
                                         !.result = mRenderPipelines[key].pipeline]
               /\ UNCHANGED << alive, device, released >>
          ELSE \* pipeline is not already in the cache
               /\ device < MaxPipelines
               /\ \E pipeline \in createRenderPipeline(PermittedInputs[reqs], device + 1) :
                     IF pipeline = Panic
                     THEN \* the call does not return
                          /\ alive' = FALSE
                          /\ last' = [NoCall EXCEPT !.op = "abort", !.reqs = reqs]
                          /\ UNCHANGED << mRenderPipelines, history, device, released >>
                     ELSE
                     LET cacheEntry == NewCacheEntry(pipeline)
                         map == emplace(mRenderPipelines, reqs, cacheEntry, pipelineIter)
                     IN  /\ device' = device + 1
                         /\ mRenderPipelines' = map
                         /\ history' =
                               [k \in DOMAIN map |->
                                  IF k = reqs
                                  THEN [builtFrom |-> reqs, createdAt |-> mGcCount,
                                        hitAt |-> -1]
                                  ELSE history[k]]
                         /\ last' = [NoCall EXCEPT !.op = "getOrCreate", !.reqs = reqs,
                                                   !.constructed = TRUE,
                                                   !.built = pipeline,
                                                   !.result = map[reqs].pipeline]
                         /\ UNCHANGED << alive, released >>
    /\ UNCHANGED << mGcCount, identity, calls, blobVars, programVars,
                    handleVars, toolVars, textureVars, memory >>

\* the erase condition with one more generation of grace
ExpiredLate(count, cacheEntry) ==
    count > cacheEntry.lastGcCountWhenUsed + FWGPU_PIPELINE_MAX_AGE + 1

\* the erase condition with >= in place of >
ExpiredAtLimit(count, cacheEntry) ==
    count >= cacheEntry.lastGcCountWhenUsed + FWGPU_PIPELINE_MAX_AGE

\* the condition under which gc erases an entry, count being the incremented
\* mGcCount
Expired(count, cacheEntry) ==
    count > cacheEntry.lastGcCountWhenUsed + FWGPU_PIPELINE_MAX_AGE

\* the pipelines owned by the entries under the given keys
OwnedPipelines(map, keys) == {map[k].pipeline : k \in keys} \ {0}

\* WebGPUPipelineCache::gc
gc ==
    /\ alive
    /\ mGcCount < MaxGcCount
    /\ mGcCount' = mGcCount + 1
    /\ LET erased == {k \in DOMAIN mRenderPipelines :
                         Expired(mGcCount', mRenderPipelines[k])}
           kept == DOMAIN mRenderPipelines \ erased
       IN  /\ mRenderPipelines' = [k \in kept |-> mRenderPipelines[k]]
           /\ history' = [k \in kept |-> history[k]]
           /\ released' = released \cup OwnedPipelines(mRenderPipelines, erased)
           /\ last' = [NoCall EXCEPT !.op = "gc", !.erased = erased]
    /\ UNCHANGED << alive, device, identity, calls, blobVars, programVars,
                    handleVars, toolVars, textureVars, memory >>

\* a destructor that releases only the entries gc would erase next
DestroyLeaking ==
    /\ alive
    /\ alive' = FALSE
    /\ mRenderPipelines' = << >>
    /\ history' = << >>
    /\ released' = released \cup
          OwnedPipelines(mRenderPipelines,
                         {k \in DOMAIN mRenderPipelines :
                             Expired(mGcCount + 1, mRenderPipelines[k])})
    /\ last' = [NoCall EXCEPT !.op = "destroy", !.erased = DOMAIN mRenderPipelines]
    /\ UNCHANGED << mGcCount, device, identity, calls, blobVars, programVars,
                    handleVars, toolVars, textureVars, memory >>

\* WebGPUPipelineCache::~WebGPUPipelineCache
Destroy ==
    /\ alive
    /\ alive' = FALSE
    /\ mRenderPipelines' = << >>
    /\ history' = << >>
    /\ released' = released \cup OwnedPipelines(mRenderPipelines, DOMAIN mRenderPipelines)
    /\ last' = [NoCall EXCEPT !.op = "destroy", !.erased = DOMAIN mRenderPipelines]
    /\ UNCHANGED << mGcCount, device, identity, calls, blobVars, programVars,
                    handleVars, toolVars, textureVars, memory >>

Init ==
    /\ InitCache /\ identity = NoIdentity /\ memory = NoCallerData
    /\ IdleBlobCache /\ IdleProgram /\ IdleUnits

Next ==
    \/ \E reqs \in Descriptors : getOrCreateRenderPipeline(reqs)
    \/ gc
    \/ Destroy

Spec == Init /\ [][Next]_vars

\* the cache under a caller that keeps calling gc (once per frame)
SpecLive == Init /\ [][Next]_vars /\ WF_vars(gc)

\* the cache driven with every permitted Descriptor
NextPermitted ==
    \/ \E reqs \in PermittedDescriptors : getOrCreateRenderPipeline(reqs)
    \/ gc
    \/ Destroy

SpecPermitted == Init /\ [][NextPermitted]_vars

(***************************************************************************)
(* getOrCreateRenderPipeline without external serialization: the calls of  *)
(* two callers interleave at the map operations and at the device call.    *)
(***************************************************************************)
\* the device calls served in the interleaved runs
MaxInterleavedPipelines == 3

\* cpp:179-184: mRenderPipelines.find(reqs) and, on a hit, the rest of the
\* call
Lookup(t, reqs) ==
    /\ alive
    /\ calls[t].pc = "idle"
    /\ \E pipelineIter \in find(mRenderPipelines, reqs) :
          IF pipelineIter # {}
          THEN LET key == CHOOSE k \in pipelineIter : TRUE IN
               /\ mRenderPipelines' =
                     [mRenderPipelines EXCEPT ![key] = HitStamp(mRenderPipelines[key])]
               /\ history' = [history EXCEPT ![key].hitAt = mGcCount]
               /\ last' = [NoCall EXCEPT !.op = "getOrCreate", !.reqs = reqs,
                                         !.found = pipelineIter,
                                         !.result = mRenderPipelines[key].pipeline]
               /\ calls' = [calls EXCEPT ![t] =
                              [NoCallInProgress EXCEPT
                                 !.pc = "done", !.reqs = reqs,
                                 !.result = mRenderPipelines[key].pipeline]]
          ELSE /\ calls' = [calls EXCEPT ![t] =
                              [NoCallInProgress EXCEPT
                                 !.pc = "create", !.reqs = reqs,
                                 !.seen = DOMAIN mRenderPipelines]]
               /\ UNCHANGED << mRenderPipelines, history, last >>
    /\ UNCHANGED << mGcCount, alive, device, released, identity, blobVars, programVars,
                    handleVars, toolVars, textureVars, memory >>

\* cpp:186-192: the cacheEntry local, built by createRenderPipeline
Create(t) ==
    /\ alive
    /\ calls[t].pc = "create"
    /\ device < MaxInterleavedPipelines
    /\ \E pipeline \in createRenderPipeline(PermittedInputs[calls[t].reqs], device + 1) :
          IF pipeline = Panic
          THEN /\ alive' = FALSE
               /\ calls' = [calls EXCEPT ![t].pc = "abort"]
               /\ UNCHANGED device
          ELSE /\ device' = device + 1
               /\ calls' = [calls EXCEPT ![t].pc = "emplace", ![t].callNo = device',
                                         ![t].pipeline = pipeline]
               /\ UNCHANGED alive
    /\ UNCHANGED << mGcCount, mRenderPipelines, released, history, last,
                    identity, blobVars, programVars,
                    handleVars, toolVars, textureVars, memory >>

\* the outcome of the probe emplace makes for the key of caller t: the
\* outcome of the caller's find while the map holds the keys it held then,
\* any outcome find can have once a key has been inserted
Probe(t) ==
    IF DOMAIN mRenderPipelines = calls[t].seen
    THEN {{}}
    ELSE find(mRenderPipelines, calls[t].reqs)

\* cpp:193-198: mRenderPipelines.emplace(reqs, cacheEntry) and the return of
\* iter->second.pipeline; the cacheEntry local is destroyed on return, and
\* with it the pipeline it holds when the map took no copy of it
Emplace(t) ==
    /\ calls[t].pc = "emplace"
    /\ \E iter \in Probe(t) :
          LET reqs == calls[t].reqs
              cacheEntry == NewCacheEntry(calls[t].pipeline)
              map == emplace(mRenderPipelines, reqs, cacheEntry, iter)
              key == IF iter = {} THEN reqs ELSE CHOOSE k \in iter : TRUE
          IN  /\ mRenderPipelines' = map
              /\ history' =
                    [k \in DOMAIN map |->
                       IF k = reqs /\ iter = {}
                       THEN [builtFrom |-> reqs, createdAt |-> mGcCount, hitAt |-> -1]
                       ELSE history[k]]
              /\ last' = [NoCall EXCEPT !.op = "getOrCreate", !.reqs = reqs,
                                        !.found = iter,
                                        !.constructed = TRUE,
                                        !.built = calls[t].pipeline,
                                        !.result = map[key].pipeline]
              /\ calls' = [calls EXCEPT
                             ![t].pc = "done",
                             ![t].emplaced = (iter = {}),
                             ![t].discarded =
                                 IF iter = {} THEN 0 ELSE calls[t].pipeline,
                             ![t].result = map[key].pipeline]
    /\ UNCHANGED << mGcCount, alive, device, released, identity, blobVars, programVars,
                    handleVars, toolVars, textureVars, memory >>

\* the caller has its return value and is free to call again
Return(t) ==
    /\ calls[t].pc = "done"
    /\ calls' = [calls EXCEPT ![t] = NoCallInProgress]
    /\ UNCHANGED << cacheVars, identity, blobVars, programVars,
                    handleVars, toolVars, textureVars, memory >>

NextInterleaved ==
    \E t \in Callers :
        \/ \E reqs \in Descriptors : Lookup(t, reqs)
        \/ Create(t)
        \/ Emplace(t)
        \/ Return(t)

SpecInterleaved == Init /\ [][NextInterleaved]_vars

(***************************************************************************)
(* Properties of the identity functions (checked under SpecIdentity).      *)
(***************************************************************************)
\* the data of a Descriptor that determine the pipeline built from it: every
\* scalar channel, the vertex attributes, the constants, and of the vertex
\* buffer layouts the first vertexBufferCount, each with its first
\* attributeCount attributes
ActiveLayout(vbLayout) ==
    [vbLayout EXCEPT !.attributes = SubSeq(vbLayout.attributes, 1, vbLayout.attributeCount)]

Channels(r) ==
    [r EXCEPT !.vertexBufferLayouts =
        [i \in 1..r.vertexBufferCount |-> ActiveLayout(r.vertexBufferLayouts[i])]]

ChannelsAgree(a, b) == Channels(a) = Channels(b)

\* C1: whenever Equal(a, b) returns true, Hash(a) = Hash(b).
HashEqualConsistency ==
    (identity.done /\ identity.equal) => identity.hashFirst = identity.hashSecond

\* C2: Equal(a, b) returns true exactly when a and b agree on every channel
\* (shader modules, scalars, layout, vertex attributes, active vertex buffer
\* layouts, specialization constants), whatever their vertexBufferCount.
EqualIffChannelsAgree ==
    identity.done =>
        (identity.equal <=> ChannelsAgree(identity.first, identity.second))

(***************************************************************************)
(* Properties of the cache (checked under Spec).                           *)
(***************************************************************************)
\* a getOrCreateRenderPipeline call has just returned
Returned == last.op = "getOrCreate"

\* the stored key whose entry the last getOrCreateRenderPipeline call returned
ReturnedKey == IF last.constructed THEN last.reqs ELSE CHOOSE k \in last.found : TRUE

\* C3: the object getOrCreateRenderPipeline(d) returns was built from a
\* Descriptor that agrees with d on every channel, and an object built on a
\* miss is distinct from every other stored or released object.
ReturnedBuiltFromRequested ==
    Returned =>
        /\ ChannelsAgree(CacheInputs[history[ReturnedKey].builtFrom],
                         CacheInputs[last.reqs])
        /\ (last.constructed /\ last.result # 0) =>
              /\ last.result \notin released
              /\ \A k \in DOMAIN mRenderPipelines \ {last.reqs} :
                    mRenderPipelines[k].pipeline # last.result

\* C4: while an entry inserted under d is stored, getOrCreateRenderPipeline
\* with a Descriptor equal to d in every field returns that entry's object
\* and does not build a pipeline.
IdentityRoundTrip ==
    [][\A d \in DOMAIN mRenderPipelines :
          (last'.op = "getOrCreate" /\ last'.reqs = d) =>
              /\ ~last'.constructed
              /\ last'.result = mRenderPipelines[d].pipeline]_vars

\* a step of gc: the only operation that changes mGcCount
GcStep == mGcCount' # mGcCount

\* a step of getOrCreateRenderPipeline
GetOrCreateStep == last'.op = "getOrCreate"

\* C5: gc removes exactly the entries whose last-used generation plus the
\* age limit is below the incremented counter, and keeps all others; so an
\* entry inserted at generation 0 and never hit survives the collects up to
\* generation FWGPU_PIPELINE_MAX_AGE and is removed by the next one.
GcRemovesExactlyExpired ==
    [][GcStep =>
          /\ mGcCount' = mGcCount + 1
          /\ DOMAIN mRenderPipelines' \subseteq DOMAIN mRenderPipelines
          /\ \A k \in DOMAIN mRenderPipelines :
                /\ (k \in DOMAIN mRenderPipelines') <=>
                      (mGcCount' <= mRenderPipelines[k].lastGcCountWhenUsed
                                       + FWGPU_PIPELINE_MAX_AGE)
                /\ k \in DOMAIN mRenderPipelines' =>
                      mRenderPipelines'[k] = mRenderPipelines[k]
                /\ (history[k].createdAt = 0 /\ history[k].hitAt = -1) =>
                      ((k \in DOMAIN mRenderPipelines') <=>
                          (mGcCount' <= FWGPU_PIPELINE_MAX_AGE))]_vars

\* C5 witness: the collect that advances to generation
\* FWGPU_PIPELINE_MAX_AGE + 1 has just erased an entry.
GcErasedAtAgeLimit ==
    /\ last.op = "gc"
    /\ mGcCount = FWGPU_PIPELINE_MAX_AGE + 1
    /\ last.erased # {}

\* C6: an entry created while the counter is g is not erased by a collect
\* that sets the counter to a value <= g + FWGPU_PIPELINE_MAX_AGE.
CreatedCountsAsUsed ==
    [][GcStep =>
          \A k \in DOMAIN mRenderPipelines :
              (mGcCount' <= history[k].createdAt + FWGPU_PIPELINE_MAX_AGE) =>
                  k \in DOMAIN mRenderPipelines']_vars

\* C7: an entry hit while the counter is g is not erased by a collect that
\* sets the counter to a value in g+1 .. g + FWGPU_PIPELINE_MAX_AGE.
HitProtectsFromGc ==
    [][GcStep =>
          \A k \in DOMAIN mRenderPipelines :
              (history[k].hitAt >= 0
                 /\ mGcCount' <= history[k].hitAt + FWGPU_PIPELINE_MAX_AGE) =>
                  k \in DOMAIN mRenderPipelines']_vars

\* C7 witness: a collect beyond the age limit has left in place an entry
\* that was created at generation 0 and hit in a later generation.
HitEntrySurvivedGc ==
    /\ last.op = "gc"
    /\ mGcCount > FWGPU_PIPELINE_MAX_AGE
    /\ \E k \in DOMAIN mRenderPipelines :
          history[k].createdAt = 0 /\ history[k].hitAt > 0

\* C8: on a hit the entry found gets the current counter as its stamp and
\* its object is returned; no other entry changes.
HitStampsAndReturns ==
    [][(GetOrCreateStep /\ ~last'.constructed) =>
          \E key \in last'.found :
              /\ key \in DOMAIN mRenderPipelines
              /\ last'.result = mRenderPipelines[key].pipeline
              /\ mRenderPipelines' =
                    [mRenderPipelines EXCEPT ![key].lastGcCountWhenUsed = mGcCount]]_vars

\* C8 witness: a hit in a generation after the entry's creation, with
\* another entry stored.
HitAfterGc ==
    /\ Returned /\ ~last.constructed
    /\ mGcCount > 0
    /\ mRenderPipelines[ReturnedKey].lastGcCountWhenUsed = mGcCount
    /\ Cardinality(DOMAIN mRenderPipelines) > 1

\* C9: no getOrCreateRenderPipeline call replaces, removes or releases a
\* stored mapping: every stored key keeps its object.
MappingNeverReplaced ==
    [][GetOrCreateStep =>
          /\ released' = released
          /\ \A k \in DOMAIN mRenderPipelines :
                /\ k \in DOMAIN mRenderPipelines'
                /\ mRenderPipelines'[k].pipeline = mRenderPipelines[k].pipeline]_vars

\* C9 witness: a pipeline has been built and inserted while an entry with an
\* Equal key, holding another object, is stored.
InsertedBesideEqualKey ==
    /\ Returned /\ last.constructed /\ last.result # 0
    /\ \E k \in DOMAIN mRenderPipelines \ {last.reqs} :
          /\ EqualOf[k][last.reqs]
          /\ mRenderPipelines[k].pipeline # 0

\* C10: getOrCreateRenderPipeline leaves the counter unchanged, removes no
\* entry and releases no object; entries are removed and objects released
\* only by gc or by the destructor.
GetOrCreateNeverCollects ==
    [][/\ GetOrCreateStep =>
            /\ mGcCount' = mGcCount
            /\ DOMAIN mRenderPipelines \subseteq DOMAIN mRenderPipelines'
            /\ released' = released
       /\ (released' # released
             \/ ~(DOMAIN mRenderPipelines \subseteq DOMAIN mRenderPipelines')) =>
            last'.op \in {"gc", "destroy"}]_vars

\* C10 witness: a miss has inserted an entry at a generation at which a
\* stored entry is already older than the age limit allows at the next gc.
InsertedWhileOldEntryStored ==
    /\ Returned /\ last.constructed
    /\ \E k \in DOMAIN mRenderPipelines \ {last.reqs} :
          mGcCount >= mRenderPipelines[k].lastGcCountWhenUsed + FWGPU_PIPELINE_MAX_AGE

(***************************************************************************)
(* The OpenGL blob cache.                                                  *)
(***************************************************************************)
\* the programs glCreateProgram creates in a run
MaxPrograms == 2

\* OpenGLBlobCache::OpenGLBlobCache, with a driver that has n program binary
\* formats, a Platform and a GL context without a pending error
InitBlobCache ==
    /\ \E num_program_binary_formats \in 0..Cardinality(BinaryFormats) :
          mCachingSupported = (num_program_binary_formats >= 1)
    /\ \E hasRetrieveBlobFunc \in BOOLEAN, hasInsertBlobFunc \in BOOLEAN,
          store \in InitialStores :
          platform = [hasRetrieveBlobFunc |-> hasRetrieveBlobFunc,
                      hasInsertBlobFunc |-> hasInsertBlobFunc,
                      store |-> store]
    /\ gl = [error |-> GL_NO_ERROR, created |-> 0, live |-> {}]
    /\ blobCall = NoBlobCall

\* retrieval that asks the driver only
RetrieveSupportedByDriver == mCachingSupported

\* whether retrieve goes to the platform at all
RetrieveSupported == mCachingSupported /\ platform.hasRetrieveBlobFunc

\* a retry after every answer but 0
NeedsRetryIfFound(blobSize) == blobSize > 0

\* whether retrieve reallocates and calls the platform a second time
NeedsRetry(blobSize) == blobSize > 0 /\ blobSize > DEFAULT_BLOB_SIZE

\* the entry the log of platform retrieval calls gets for one call
RetrieveCall(valueSize, answer) ==
    [valueSize |-> valueSize, reported |-> answer.size,
     delivered |-> answer.delivered]

\* what the call before this one stored for program, if it was an insert
\* with the key a missing retrieve had output
InsertedAfterMiss(program) ==
    IF /\ blobCall.op = "insert"
       /\ blobCall.afterMiss
       /\ blobCall.key = << program.cacheId >> \o program.specializationConstants
    THEN blobCall.insertCalls
    ELSE << >>

\* OpenGLBlobCache::retrieve; the caller's key and size variables hold
\* EmptyKey and PriorSize before the call
retrieve(outKeyGiven, outSizeGiven, program) ==
    LET call == [NoBlobCall EXCEPT !.op = "retrieve", !.program = program,
                                   !.outKeyGiven = outKeyGiven,
                                   !.outSizeGiven = outSizeGiven,
                                   !.inserted = InsertedAfterMiss(program)]
    IN
    /\ IF ~RetrieveSupported
       THEN \* the key is never updated in that case
            /\ blobCall' = [call EXCEPT !.blob = NullBlob]
            /\ UNCHANGED platform
       ELSE LET key == BlobCacheKey(program.cacheId, program.specializationConstants)
                first == retrieveBlob(platform.store, key,
                                      BlobCreate(DEFAULT_BLOB_SIZE), DEFAULT_BLOB_SIZE)
                blobSize == first.size
                retry == NeedsRetry(blobSize)
            IN  \E store \in (IF retry THEN Interference(platform.store, key)
                                      ELSE {platform.store}) :
                  LET second == retrieveBlob(store, key, BlobCreate(blobSize), blobSize)
                  IN  /\ blobCall' =
                            [call EXCEPT
                               !.outKey = IF outKeyGiven THEN key ELSE @,
                               !.outSize = IF outSizeGiven THEN blobSize ELSE @,
                               !.blob = IF retry THEN second.value ELSE first.value,
                               !.retrieveCalls =
                                   << RetrieveCall(DEFAULT_BLOB_SIZE, first) >>
                                     \o (IF retry
                                         THEN << RetrieveCall(blobSize, second) >>
                                         ELSE << >>)]
                      /\ platform' = [platform EXCEPT !.store = store]
    /\ UNCHANGED << mCachingSupported, gl, pipelineVars, programVars,
                    handleVars, toolVars, textureVars >>

\* a GL command raises error e: the flag keeps the first error raised since
\* it was last read
RaiseError(flag, e) == IF flag = GL_NO_ERROR THEN e ELSE flag

\* glProgramBinary(program, format, data, length): the error it raises and
\* the link status of the program afterwards.  A negative length is
\* GL_INVALID_VALUE; a binary the driver handed out may load and link, be
\* accepted and stay unlinked, or be rejected; anything else does not link
ProgramBinaryOutcomes(blob, length) ==
    IF length < 0
    THEN {[error |-> GL_INVALID_VALUE, linked |-> FALSE]}
    ELSE {[error |-> GL_NO_ERROR, linked |-> FALSE],
          [error |-> GL_INVALID_OPERATION, linked |-> FALSE]}
           \cup (IF /\ length > 0
                    /\ blob.content.size = SizeofBlob + length
                    /\ blob.content.format \in BinaryFormats
                 THEN {[error |-> GL_NO_ERROR, linked |-> TRUE]}
                 ELSE {})

\* a createProgram that never deletes
DeleteCallsNone(failed, programId) == << >>

\* the glDeleteProgram calls of createProgram
DeleteCalls(failed, programId) == IF failed THEN << programId >> ELSE << >>

\* OpenGLBlobCache::createProgram, called with the key, the blob and the size
\* the last retrieve handed out
createProgram ==
    /\ blobCall.op = "retrieve"
    /\ ~blobCall.blob.null
    /\ blobCall.outKeyGiven /\ blobCall.outSizeGiven
    /\ gl.created < MaxPrograms
    /\ LET blob == blobCall.blob
           blobSize == blobCall.outSize
           programBinarySize == ToGLsizei(ToSizeT(blobSize - SizeofBlob))
           created == gl.created + 1
       IN  \E outcome \in ProgramBinaryOutcomes(blob, programBinarySize) :
             LET glError == RaiseError(gl.error, outcome.error)
                 linkStatus == IF glError = GL_NO_ERROR THEN outcome.linked ELSE FALSE
                 failed == glError # GL_NO_ERROR \/ ~linkStatus
                 deleted == DeleteCalls(failed, created)
             IN  /\ gl' = [error |-> GL_NO_ERROR, created |-> created,
                           live |-> (gl.live \cup {created})
                                      \ {deleted[i] : i \in DOMAIN deleted}]
                 /\ blobCall' =
                       [NoBlobCall EXCEPT
                          !.op = "createProgram", !.program = blobCall.program,
                          !.key = blobCall.outKey, !.blob = blob,
                          !.blobSize = blobSize,
                          !.programBinarySize = programBinarySize,
                          !.pendingError = gl.error,
                          !.created = created,
                          !.loadError = outcome.error,
                          !.linked = outcome.linked,
                          !.deleted = deleted,
                          !.logged = failed,
                          !.programId = IF failed THEN 0 ELSE created]
    /\ UNCHANGED << mCachingSupported, platform, pipelineVars, programVars,
                    handleVars, toolVars, textureVars >>

\* glGetProgramiv(program, GL_PROGRAM_BINARY_LENGTH, &programBinarySize): an
\* error, which leaves the variable at 0, or the length of the binary
BinaryLengthOutcomes ==
    {[error |-> GL_INVALID_VALUE, size |-> 0]}
      \cup {[error |-> GL_NO_ERROR, size |-> n] : n \in {0, MaxBinarySize}}

\* glGetProgramBinary: an error, or the binary with its format
GetProgramBinaryOutcomes ==
    {[error |-> GL_INVALID_OPERATION, format |-> 0]}
      \cup {[error |-> GL_NO_ERROR, format |-> f] : f \in BinaryFormats}

\* a store that ignores the error flag
StoreAllowedAlways(error) == TRUE

\* if (error == GL_NO_ERROR) before platform.insertBlob
StoreAllowed(error) == error = GL_NO_ERROR

\* insertion that asks the driver only
InsertSupportedByDriver == mCachingSupported

\* whether insert goes to the driver and the platform at all
InsertSupported == mCachingSupported /\ platform.hasInsertBlobFunc

\* whether the call before this one was a retrieve that output key and
\* size 0
MissedWith(key) ==
    /\ blobCall.op = "retrieve"
    /\ blobCall.outKeyGiven /\ blobCall.outSizeGiven
    /\ blobCall.outKey = key
    /\ blobCall.outSize = 0

\* OpenGLBlobCache::insert
insert(key) ==
    LET call == [NoBlobCall EXCEPT !.op = "insert", !.key = key,
                                   !.afterMiss = MissedWith(key)] IN
    /\ IF ~InsertSupported
       THEN /\ blobCall' = call
            /\ UNCHANGED << platform, gl >>
       ELSE \E query \in BinaryLengthOutcomes :
              LET programBinarySize == query.size
                  afterQuery == RaiseError(gl.error, query.error)
              IN  IF programBinarySize = 0
                  THEN /\ blobCall' = [call EXCEPT !.sizeQueries = 1,
                                                   !.pendingError = gl.error,
                                                   !.loadError = query.error]
                       /\ gl' = [gl EXCEPT !.error = afterQuery]
                       /\ UNCHANGED platform
                  ELSE \E binary \in GetProgramBinaryOutcomes :
                         LET size == SizeofBlob + programBinarySize
                             error == RaiseError(afterQuery, binary.error)
                             stored == StoreAllowed(error)
                         IN  /\ gl' = [gl EXCEPT !.error = GL_NO_ERROR]
                             /\ platform' =
                                   IF stored
                                   THEN [platform EXCEPT !.store =
                                           insertBlob(@, key, binary.format, size)]
                                   ELSE platform
                             /\ blobCall' =
                                   [call EXCEPT
                                      !.sizeQueries = 1,
                                      !.programBinarySize = programBinarySize,
                                      !.pendingError = gl.error,
                                      !.loadError = binary.error,
                                      !.binaryFormat = binary.format,
                                      !.insertCalls =
                                          IF stored
                                          THEN << [key |-> key, size |-> size,
                                                   format |-> binary.format] >>
                                          ELSE << >>]
    /\ UNCHANGED << mCachingSupported, pipelineVars, programVars,
                    handleVars, toolVars, textureVars >>

\* the keys retrieve outputs for the programs
ProgramKeys ==
    {BlobCacheKey(program.cacheId, program.specializationConstants) :
        program \in Programs}

InitBlob ==
    /\ InitCache /\ identity = NoIdentity /\ memory = NoCallerData
    /\ InitBlobCache /\ IdleProgram /\ IdleUnits

NextBlob ==
    \/ \E outKeyGiven \in BOOLEAN, outSizeGiven \in BOOLEAN, program \in Programs :
          retrieve(outKeyGiven, outSizeGiven, program)
    \/ createProgram
    \/ \E key \in ProgramKeys : insert(key)

SpecBlob == InitBlob /\ [][NextBlob]_vars

(***************************************************************************)
(* Shader-module construction.                                             *)
(***************************************************************************)
\* the source handed to the device: replaceSpecConstants, which runs when
\* there are specialization constants, stops the process at a constant
\* prefix that no '_' or ';' follows
ProcessedSource(source, hasSpecConstants) ==
    IF hasSpecConstants /\ source = "malformed" THEN "panic" ELSE source

\* what the callback logs for the messages of a CompilationInfo
RECURSIVE CompilationLog(_)
CompilationLog(messages) ==
    IF messages = << >> THEN << >>
    ELSE LET message == Head(messages)
         IN  (IF message = "Info" THEN << "LOGI message" >>
              ELSE IF message = "Warning" THEN << "LOGW warning" >>
              ELSE << >>) \o CompilationLog(Tail(messages))

\* errorCount after the loop over the messages
ErrorCount(messages) ==
    Cardinality({i \in DOMAIN messages : messages[i] = "Error"})

\* what instance.WaitAny(future, timeout) answers
WaitStatuses == {"Success", "TimedOut", "Error"}

\* the status the callback is given; info is null (<< >> and hasInfo FALSE)
\* or holds messages
CallbackStatuses == {"Success", "CallbackCancelled"}

\* what createShaderModule logs for the status WaitAny returns: the return
\* value is not read
WaitLog(status) == << >>

\* createShaderModule(device, program, stage, specConstants): the ways the
\* call can go, each with what the device and the wait answered, what was
\* logged and how the call ended
ShaderModuleCalls(name, stage, source, hasSpecConstants, debugValidation) ==
    LET call == [NoShaderCall EXCEPT !.op = "createShaderModule", !.name = name,
                                     !.stage = stage, !.source = source,
                                     !.hasSpecConstants = hasSpecConstants]
        module == 1
        created == [call EXCEPT !.module = module]
        waited == [created EXCEPT !.waitStatus = "Success"]
    IN
    IF source = "empty"
    THEN \* nothing to compile, the shader was not provided
         {[call EXCEPT !.returned = TRUE]}
    ELSE IF ProcessedSource(source, hasSpecConstants) = "panic"
    THEN {[call EXCEPT !.panic = "malformed"]}
    ELSE \* device.CreateShaderModule returns nullptr
         {[call EXCEPT !.panic = "Failed to create"]}
         \* the wait ends before the callback has run
           \cup {[created EXCEPT !.waitStatus = waitStatus,
                                 !.log = WaitLog(waitStatus),
                                 !.returned = TRUE] :
                    waitStatus \in WaitStatuses \ {"Success"}}
           \cup {[waited EXCEPT !.callbackStatus = "CallbackCancelled",
                                !.log = << "LOGW cancelled" >> \o WaitLog("Success"),
                                !.returned = TRUE]}
           \cup {IF ErrorCount(messages) >= 1
                 THEN [waited EXCEPT !.callbackStatus = "Success",
                                     !.messages = messages,
                                     !.log = CompilationLog(messages),
                                     !.panic = "error(s) compiling"]
                 ELSE [waited EXCEPT !.callbackStatus = "Success",
                                     !.messages = messages,
                                     !.log = CompilationLog(messages)
                                               \o (IF debugValidation
                                                   THEN << "LOGD compiled" >>
                                                   ELSE << >>)
                                               \o WaitLog("Success"),
                                     !.returned = TRUE] :
                    messages \in MessageLists(MaxMessages)}

\* one createShaderModule call
createShaderModule(name, stage, source, hasSpecConstants, debugValidation) ==
    /\ shaderCall' \in ShaderModuleCalls(name, stage, source, hasSpecConstants,
                                         debugValidation)
    /\ UNCHANGED << pipelineVars, blobVars, wgpuProgram, handleVars, toolVars,
                    textureVars >>

InitProgram ==
    /\ InitCache /\ identity = NoIdentity /\ memory = NoCallerData
    /\ IdleBlobCache /\ IdleProgram /\ IdleUnits

NextProgram ==
    \E name \in {"a", "b"}, stage \in ShaderStages, source \in ShaderSources,
       hasSpecConstants \in BOOLEAN, debugValidation \in BOOLEAN :
        createShaderModule(name, stage, source, hasSpecConstants, debugValidation)

SpecProgram == InitProgram /\ [][NextProgram]_vars

(***************************************************************************)
(* WGPUProgram: the constants of a Program substituted into its shaders.   *)
(***************************************************************************)
\* the significant digits a std::stringstream writes of a float
StreamPrecision == 6

\* the number of decimal digits of n > 0
RECURSIVE DecimalDigits(_)
DecimalDigits(n) == IF n < 10 THEN 1 ELSE 1 + DecimalDigits(n \div 10)

\* n >= 0 rounded to digits significant decimal digits, ties to even
RoundToSignificant(n, digits) ==
    IF n = 0 \/ DecimalDigits(n) <= digits THEN n
    ELSE LET scale == 10 ^ (DecimalDigits(n) - digits)
             quotient == n \div scale
             rest == n % scale
             up == \/ 2 * rest > scale
                   \/ 2 * rest = scale /\ quotient % 2 = 1
         IN  (IF up THEN quotient + 1 ELSE quotient) * scale

\* processedShaderSourceStr << " " << value << suffix for the alternative
\* held: the integer in full with "i", the float as the stream writes it
\* with "f", the bool as a word
StreamedLiteral(newValue) ==
    IF newValue.type = "int32" THEN NumberLiteral(newValue.value, "i")
    ELSE IF newValue.type = "float"
    THEN NumberLiteral(IF newValue.value < 0
                       THEN -RoundToSignificant(-newValue.value, StreamPrecision)
                       ELSE RoundToSignificant(newValue.value, StreamPrecision),
                       "f")
    ELSE WordLiteral(IF newValue.value = 1 THEN "true" ELSE "false")

\* the value a WGSL literal stands for
LiteralValue(literal) ==
    IF literal.suffix = "true" THEN Bool(1)
    ELSE IF literal.suffix = "false" THEN Bool(0)
    ELSE IF literal.suffix = "f" THEN Float(literal.number)
    ELSE IF literal.suffix = "i" THEN Int32(literal.number)
    ELSE [type |-> "abstract", value |-> literal.number]

\* whether the stream writes the float of a literal with an exponent
HasExponent(literal) ==
    /\ literal.suffix = "f"
    /\ literal.number # 0
    /\ DecimalDigits(IF literal.number < 0 THEN -literal.number ELSE literal.number)
          > StreamPrecision

\* the first decimal digit of n > 0
RECURSIVE LeadingDigit(_)
LeadingDigit(n) == IF n < 10 THEN n ELSE LeadingDigit(n \div 10)

\* std::atoi on the text of a literal: the digits up to the first character
\* that is none, 0 for a word
atoi(literal) ==
    IF literal.suffix \in {"true", "false"} THEN 0
    ELSE IF HasExponent(literal)
    THEN (IF literal.number < 0 THEN -LeadingDigit(-literal.number)
          ELSE LeadingDigit(literal.number))
    ELSE literal.number

\* toMap: constantById.emplace(id, value) for each constant in turn, which
\* keeps the first value emplaced for an id
toMap(specConstants) ==
    LET ids == {specConstants[i].id : i \in DOMAIN specConstants}
        firstOf(id) == CHOOSE i \in DOMAIN specConstants :
                          /\ specConstants[i].id = id
                          /\ \A j \in DOMAIN specConstants :
                                specConstants[j].id = id => i <= j
    IN  [id \in ids |-> specConstants[firstOf(id)].value]

\* if (specConstants.find(0) != specConstants.end()) specConstants[0] = 42;
OverrideSpecConstants(constantById) ==
    [id \in DOMAIN constantById |-> IF id = 0 THEN Int32(42) ELSE constantById[id]]

\* replaceSpecConstants stops the process at a prefix that no '_' or no ';'
\* follows
Malformed(shaderSource) ==
    \E i \in DOMAIN shaderSource : shaderSource[i].kind = "truncated"

\* replaceSpecConstants on a source it does not stop at: the statements in
\* their order, the value of each declaration whose id is in the map
\* replaced by the literal streamed for the map's value, all else as it was
replaceSpecConstants(shaderSource, specConstants) ==
    [i \in DOMAIN shaderSource |->
        LET statement == shaderSource[i] IN
        IF statement.kind = "declaration" /\ statement.id \in DOMAIN specConstants
        THEN [statement EXCEPT !.literal = StreamedLiteral(specConstants[statement.id])]
        ELSE statement]

\* processedShaderSource of createShaderModule
processedShaderSource(shaderSource, specConstants) ==
    IF specConstants = << >> THEN shaderSource
    ELSE replaceSpecConstants(shaderSource, specConstants)

\* originalSource.find("FILAMENT_SPEC_CONST_0_") != npos
MentionsConstantZero(shaderSource) ==
    \E i \in DOMAIN shaderSource :
        shaderSource[i].kind \in {"declaration", "use"} /\ shaderSource[i].id = 0

\* std::regex_search with FILAMENT_SPEC_CONST_0_\w*\s*=\s*([^;]+); : the
\* positions of the declarations of constant 0 that have nothing but blanks
\* between name and '='
RegexMatches(shaderSource) ==
    {i \in DOMAIN shaderSource :
        /\ shaderSource[i].kind = "declaration"
        /\ shaderSource[i].id = 0
        /\ ~shaderSource[i].typed}

\* the number atoi reads from the first match
FirstMatchNumber(shaderSource) ==
    LET first == CHOOSE i \in RegexMatches(shaderSource) :
                    \A j \in RegexMatches(shaderSource) : i <= j
    IN  atoi(shaderSource[first].literal)

\* the check createShaderModule makes of constant 0 before it hands the
\* source to the device: not made ("skipped"), ended by std::get<int32_t> on
\* another alternative ("bad_variant_access", raised before the source is
\* processed), or made with the outcome of its assertions
SelfTest(shaderSource, specConstants) ==
    IF ~(MentionsConstantZero(shaderSource) /\ 0 \in DOMAIN specConstants)
          \/ RegexMatches(shaderSource) = {}
    THEN "skipped"
    ELSE IF specConstants[0].type # "int32" THEN "bad_variant_access"
    ELSE LET oldNumber == FirstMatchNumber(shaderSource)
             newNumber == specConstants[0].value
             processed == processedShaderSource(shaderSource, specConstants)
         IN  IF oldNumber = newNumber THEN "skipped"
             ELSE IF Malformed(shaderSource) THEN "not reached"
             ELSE IF /\ RegexMatches(processed) # {}
                     /\ FirstMatchNumber(processed) = newNumber
             THEN "passed"
             ELSE "assertion failed"

\* the source of a stage as createShaderModule's callers above tell sources
\* apart
SourceClass(shaderSource) ==
    IF shaderSource = << >> THEN "empty"
    ELSE IF Malformed(shaderSource) THEN "malformed"
    ELSE "wgsl"

\* the order in which the constructor builds the stages
StageOrder == << "vertex", "fragment", "compute" >>

\* what the constructor holds of a stage after the createShaderModule call
\* that went as call says
StageBuilt(shaderSource, specConstants, call) ==
    LET selfTest == SelfTest(shaderSource, specConstants)
        stopped == /\ call.source # "empty"
                   /\ selfTest \in {"bad_variant_access", "assertion failed"}
        reachedDevice == call.source = "wgsl" /\ ~stopped
    IN  [built |-> TRUE,
         processedShaderSource |->
             IF reachedDevice
             THEN processedShaderSource(shaderSource, specConstants)
             ELSE << >>,
         selfTest |-> IF call.source = "empty" THEN "none" ELSE selfTest,
         module |-> IF call.returned /\ ~stopped THEN call.module ELSE 0,
         panic |-> IF stopped THEN selfTest ELSE call.panic]

\* WGPUProgram::WGPUProgram(device, program): toMap, the assignment to
\* constant 0, then createShaderModule for the stages in StageOrder; a call
\* that does not return ends the constructor and the process
WGPUProgramConstructor(program, debugValidation) ==
    LET specConstants == OverrideSpecConstants(toMap(program.specializationConstants))
        callsOf(stage) ==
            ShaderModuleCalls(program.name, stage,
                              SourceClass(program.shadersSource[stage]),
                              specConstants # << >>, debugValidation)
        ended(made) ==
            /\ shaderCall' = made[Len(made)]
            /\ wgpuProgram' =
                  [constructed |-> made[Len(made)].returned,
                   aborted |-> ~made[Len(made)].returned,
                   name |-> program.name,
                   given |-> program.specializationConstants,
                   specConstants |-> specConstants,
                   stages |->
                      [stage \in ShaderStages |->
                          LET i == CHOOSE n \in DOMAIN StageOrder : StageOrder[n] = stage
                          IN  IF i <= Len(made)
                              THEN StageBuilt(program.shadersSource[stage],
                                              specConstants, made[i])
                              ELSE NotBuilt]]
    IN
    /\ ~wgpuProgram.constructed /\ ~wgpuProgram.aborted
    /\ \E vertex \in callsOf("vertex") :
          IF ~vertex.returned THEN ended(<< vertex >>)
          ELSE \E fragment \in callsOf("fragment") :
                 IF ~fragment.returned THEN ended(<< vertex, fragment >>)
                 ELSE \E compute \in callsOf("compute") :
                        ended(<< vertex, fragment, compute >>)
    /\ UNCHANGED << pipelineVars, blobVars, handleVars, toolVars, textureVars >>

NextWGPUProgram ==
    \E program \in WGPUPrograms, debugValidation \in BOOLEAN :
        WGPUProgramConstructor(program, debugValidation)

SpecWGPUProgram == InitProgram /\ [][NextWGPUProgram]_vars

(***************************************************************************)
(* The helpers of the WebGPU handles: getVertexFormat and convertConstants. *)
(***************************************************************************)
\* filament::backend::ElementType
ElementTypes ==
    {"BYTE", "BYTE2", "BYTE3", "BYTE4", "UBYTE", "UBYTE2", "UBYTE3", "UBYTE4",
     "SHORT", "SHORT2", "SHORT3", "SHORT4", "USHORT", "USHORT2", "USHORT3", "USHORT4",
     "INT", "UINT", "FLOAT", "FLOAT2", "FLOAT3", "FLOAT4",
     "HALF", "HALF2", "HALF3", "HALF4"}

\* in place of a vertex format: FILAMENT_CHECK_POSTCONDITION(false)
NoVertexFormat == "Normalized format does not exist."

\* the switch of getVertexFormat for normalized == true
NormalizedVertexFormat(type) ==
    CASE type = "BYTE" -> "Snorm8"
      [] type = "UBYTE" -> "Unorm8"
      [] type = "SHORT" -> "Snorm16"
      [] type = "USHORT" -> "Unorm16"
      [] type = "BYTE2" -> "Snorm8x2"
      [] type = "UBYTE2" -> "Unorm8x2"
      [] type = "SHORT2" -> "Snorm16x2"
      [] type = "USHORT2" -> "Unorm16x2"
      [] type = "BYTE3" -> "Snorm8x4"
      [] type = "UBYTE3" -> "Unorm8x4"
      [] type = "SHORT3" -> "Snorm16x4"
      [] type = "USHORT3" -> "Unorm16x4"
      [] type = "BYTE4" -> "Snorm8x4"
      [] type = "UBYTE4" -> "Unorm8x4"
      [] type = "SHORT4" -> "Snorm16x4"
      [] type = "USHORT4" -> "Unorm8x4"
      [] OTHER -> NoVertexFormat

\* the switch of getVertexFormat for normalized == false
PlainVertexFormat(type, integer) ==
    CASE type = "BYTE" -> IF integer THEN "Sint8" ELSE "Float32"
      [] type = "UBYTE" -> IF integer THEN "Uint8" ELSE "Float32"
      [] type = "SHORT" -> IF integer THEN "Sint16" ELSE "Float32"
      [] type = "USHORT" -> IF integer THEN "Uint16" ELSE "Float32"
      [] type = "HALF" -> "Float16"
      [] type = "INT" -> "Sint32"
      [] type = "UINT" -> "Uint32"
      [] type = "FLOAT" -> "Float32"
      [] type = "BYTE2" -> IF integer THEN "Sint8x2" ELSE "Float32x2"
      [] type = "UBYTE2" -> IF integer THEN "Uint8x2" ELSE "Float32x2"
      [] type = "SHORT2" -> IF integer THEN "Sint16x2" ELSE "Float32x2"
      [] type = "USHORT2" -> IF integer THEN "Uint16x2" ELSE "Float32x2"
      [] type = "HALF2" -> "Float16x2"
      [] type = "FLOAT2" -> "Float32x2"
      [] type = "BYTE3" -> "Sint8x4"
      [] type = "UBYTE3" -> "Uint8x4"
      [] type = "SHORT3" -> "Sint16x4"
      [] type = "USHORT3" -> "Uint16x4"
      [] type = "HALF3" -> "Float16x4"
      [] type = "FLOAT3" -> "Float32x3"
      [] type = "BYTE4" -> IF integer THEN "Sint8x4" ELSE "Float32x4"
      [] type = "UBYTE4" -> IF integer THEN "Uint8x4" ELSE "Float32x4"
      [] type = "SHORT4" -> IF integer THEN "Sint16x4" ELSE "Float32x4"
      [] type = "USHORT4" -> IF integer THEN "Uint16x4" ELSE "Float32x4"
      [] type = "HALF4" -> "Float16x4"
      [] type = "FLOAT4" -> "Float32x4"

\* getVertexFormat(type, normalized, integer): the format returned, or
\* NoVertexFormat when the call does not return
getVertexFormat(type, normalized, integer) ==
    IF normalized THEN NormalizedVertexFormat(type)
    ELSE PlainVertexFormat(type, integer)

\* a call of getVertexFormat
GetVertexFormat(type, normalized, integer) ==
    LET format == getVertexFormat(type, normalized, integer) IN
    /\ ~handleCall.panic
    /\ handleCall' = [NoHandleCall EXCEPT !.op = "getVertexFormat", !.type = type,
                                          !.normalized = normalized,
                                          !.integer = integer,
                                          !.format = format,
                                          !.panic = (format = NoVertexFormat)]
    /\ UNCHANGED << pipelineVars, blobVars, programVars, toolVars, textureVars >>

\* the decimal digits of n >= 0, first digit first
RECURSIVE DigitsOf(_)
DigitsOf(n) == IF n < 10 THEN << n >> ELSE Append(DigitsOf(n \div 10), n % 10)

\* std::to_string(id)
to_string(id) == DigitsOf(id)

\* what is read where a destroyed string kept its characters, when that
\* memory holds none of the strings built
Garbage == << >>

\* constantEntry.key = wgpu::StringView(std::to_string(specConstant.id)): the
\* view points into a temporary string that is destroyed at the end of the
\* statement.  What is read through the key afterwards is the text of the
\* id while the memory is intact, the text of another id once a later
\* temporary has taken the place, or anything else
KeyReadings(constantsInfo) ==
    {to_string(constantsInfo[j].id) : j \in DOMAIN constantsInfo} \cup {Garbage}

\* static_cast<double>(*v), static_cast<double>(*f) and *b ? 0.0 : 1.0: the
\* double, named by the integer it equals
ConstantEntryValue(value) ==
    IF value.type = "bool"
    THEN (IF value.value = 1 THEN 0 ELSE 1)
    ELSE value.value

\* a call of convertConstants(constantsInfo)
ConvertConstants(constantsInfo) ==
    /\ ~handleCall.panic
    /\ \E keys \in [DOMAIN constantsInfo -> KeyReadings(constantsInfo)] :
          handleCall' =
             [NoHandleCall EXCEPT
                !.op = "convertConstants",
                !.constantsInfo = constantsInfo,
                !.constants =
                    [i \in DOMAIN constantsInfo |->
                        [key |-> keys[i],
                         value |-> ConstantEntryValue(constantsInfo[i].value)]]]
    /\ UNCHANGED << pipelineVars, blobVars, programVars, toolVars, textureVars >>

InitHandles ==
    /\ InitCache /\ identity = NoIdentity /\ memory = NoCallerData
    /\ IdleBlobCache /\ IdleProgram /\ IdleUnits

NextHandles ==
    \/ \E type \in ElementTypes, normalized \in BOOLEAN, integer \in BOOLEAN :
          GetVertexFormat(type, normalized, integer)
    \/ \E constantsInfo \in SpecConstantLists : ConvertConstants(constantsInfo)

SpecHandles == InitHandles /\ [][NextHandles]_vars

(***************************************************************************)
(* The shader transformer.                                                 *)
(***************************************************************************)
\* the texts a run writes to the output stream at most
MaxTransforms == 4

\* the texts transform reads from its input stream
GlslTexts == {"", "void main() {}", "void main() { discard; }", "#error"}

\* the SPIR-V vector GlslangToSpv fills in for a text that parses and links,
\* named by its number of words; 0 stands for the empty vector
SpirvOf(glsl) ==
    CASE glsl = "void main() {}" -> 20
      [] glsl = "void main() { discard; }" -> 21
      [] OTHER -> 0

\* glslToSpirv(glsl): what it writes to std::cerr and the vector it returns.
\* shader.parse or program.link may fail, which gives the empty vector;
\* otherwise the vector is what GlslangToSpv filled in
glslToSpirvOutcomes(glsl) ==
    {[log |-> << "Failed to parse GLSL!" >>, spirv |-> 0],
     [log |-> << "WARNING linking shader", "ERROR linking shader" >>, spirv |-> 0]}
      \cup (IF glsl = "#error" THEN {}
            ELSE {[log |-> << >>, spirv |-> SpirvOf(glsl)]})

\* modifySpirv(spirv): optimizer.Run fails, which gives the empty vector, or
\* fills in the transformed module
modifySpirvOutcomes(spirv) ==
    {[log |-> << "Failed to transform SPIR-V!" >>, modifiedSpirv |-> 0],
     [log |-> << >>, modifiedSpirv |-> spirv]}

\* spirvToGlsl(spirv): spirv_cross::CompilerGLSL on a module.  It cannot
\* parse a vector without the header words: it throws, or terminates the
\* process in a build without exceptions
spirvToGlslOutcomes(spirv) ==
    IF spirv = 0
    THEN {[ended |-> "exception", glsl |-> ""], [ended |-> "terminated", glsl |-> ""]}
    ELSE {[ended |-> "returned",
           glsl |-> IF spirv = 20 THEN "void main() { }"
                    ELSE "void main() { discard; }"]}

\* the second if (spirv.empty()) of transform, after modifySpirv
SecondEmptyTest(spirv, modifiedSpirv) == spirv = 0

\* ShaderTransformer::transform(in, out), in holding the text glsl
transform(glsl) ==
    LET call == [NoTransformCall EXCEPT !.op = "transform", !.originalGlsl = glsl] IN
    /\ transformCall.ended \in {"none", "returned"}
    /\ Len(out) < MaxTransforms
    /\ \E first \in glslToSpirvOutcomes(glsl) :
          IF first.spirv = 0
          THEN /\ transformCall' = [call EXCEPT !.log = first.log,
                                                !.ended = "returned",
                                                !.result = FALSE]
               /\ out' = out
          ELSE \E second \in modifySpirvOutcomes(first.spirv) :
                 LET modified ==
                        [call EXCEPT !.spirv = first.spirv,
                                     !.modifiedSpirv = second.modifiedSpirv,
                                     !.log = first.log \o << "INFO: initial SPIR-V" >>
                                                \o second.log]
                 IN  IF SecondEmptyTest(first.spirv, second.modifiedSpirv)
                     THEN /\ transformCall' = [modified EXCEPT !.ended = "returned",
                                                               !.result = FALSE]
                          /\ out' = out
                     ELSE \E third \in spirvToGlslOutcomes(second.modifiedSpirv) :
                            /\ transformCall' =
                                  [modified EXCEPT
                                     !.log = @ \o << "INFO: transformed SPIR-V" >>,
                                     !.ended = third.ended,
                                     !.result = (third.ended = "returned")]
                            /\ out' = IF third.ended = "returned"
                                      THEN Append(out, third.glsl)
                                      ELSE out
    /\ UNCHANGED << pipelineVars, blobVars, programVars, handleVars, textureVars >>

InitTransformer ==
    /\ InitCache /\ identity = NoIdentity /\ memory = NoCallerData
    /\ IdleBlobCache /\ IdleProgram /\ IdleUnits

NextTransformer == \E glsl \in GlslTexts : transform(glsl)

SpecTransformer == InitTransformer /\ [][NextTransformer]_vars

(***************************************************************************)
(* The texture and its driver handles.                                     *)
(***************************************************************************)
\* the mip levels of a texture at most
MaxLevels == 2

\* the handles the driver creates in a run at most
MaxHandles == 4

\* SamplerType, as far as the texture operations tell targets apart
SamplerTypes == {"SAMPLER_2D", "SAMPLER_3D", "SAMPLER_CUBEMAP", "SAMPLER_EXTERNAL"}

\* the Builders Builder::build hands to the constructor: SAMPLER_EXTERNAL
\* implies external, the level count is at most the one of the size (1 for a
\* texture of one pixel), a swizzled or an imported texture is SAMPLEABLE
TextureBuilders ==
    {b \in [mExternal : BOOLEAN, mTextureIsSwizzled : BOOLEAN, imported : BOOLEAN,
            mTarget : SamplerTypes, mLevels : 1..MaxLevels, onePixel : BOOLEAN,
            sampleable : BOOLEAN, uploadable : BOOLEAN] :
        /\ b.mTarget = "SAMPLER_EXTERNAL" => b.mExternal
        /\ b.onePixel => b.mLevels = 1
        /\ b.mTextureIsSwizzled => b.sampleable
        /\ b.imported => b.sampleable}

\* a texture and a driver as a pair, for the steps of one operation
Pair(t, d) == [texture |-> t, driver |-> d]

\* the handle the driver's next create call returns
NextHandle(d) == d.created + 1

\* driver.createTexture, importTexture, createTextureView... : a new handle,
\* alive, created for the texture
createHandle(d) ==
    [d EXCEPT !.created = NextHandle(d),
              !.live = @ \cup {NextHandle(d)},
              !.owned = @ \cup {NextHandle(d)}]

\* driver.destroyTexture(handle)
destroyTexture(d, handle) ==
    IF handle \in d.live
    THEN [d EXCEPT !.live = @ \ {handle}]
    ELSE [d EXCEPT !.destroyedDead = @ \cup {handle}]

\* createTextureViewSwizzle on the handle created last, which is then
\* destroyed: the driver with the view as its newest handle
swizzled(d) == destroyTexture(createHandle(d), d.created)

\* assert_invariant(!mHandle || mHandleForSampling)
HandlesInvariant(t) == t.mHandle = NullHandle \/ t.mHandleForSampling # NullHandle

\* if (mHandleForSampling != mHandle) of setHandles
DestroysSamplingHandle(t) == t.mHandleForSampling # t.mHandle

\* FTexture::setHandles(handle)
setHandles(t, d, handle) ==
    LET first == IF t.mHandle # NullHandle THEN destroyTexture(d, t.mHandle) ELSE d
        second == IF DestroysSamplingHandle(t)
                  THEN destroyTexture(first, t.mHandleForSampling)
                  ELSE first
    IN  Pair([t EXCEPT !.asserted = @ /\ HandlesInvariant(t),
                       !.mHandle = handle,
                       !.mHandleForSampling = handle],
             second)

\* a setHandleForSampling that destroys nothing
ReplacesViewNever(t) == FALSE

\* if (mHandleForSampling && mHandleForSampling != mHandle)
ReplacesView(t) ==
    t.mHandleForSampling # NullHandle /\ t.mHandleForSampling # t.mHandle

\* FTexture::setHandleForSampling(handle)
setHandleForSampling(t, d, handle) ==
    Pair([t EXCEPT !.asserted = @ /\ HandlesInvariant(t),
                   !.mHandleForSampling = handle,
                   !.result = handle],
         IF ReplacesView(t) THEN destroyTexture(d, t.mHandleForSampling) ELSE d)

\* LodRange::empty()
empty(range) == range.first = range.last

\* FTexture::hasAllLods(range)
hasAllLods(t, range) == range.first = 0 /\ range.last = t.mLevelCount

Min(a, b) == IF a < b THEN a ELSE b
Max(a, b) == IF a > b THEN a ELSE b

\* FTexture::updateLodRange(baseLevel, levelCount) past its assertion
updateLodRange(t, baseLevel, levelCount) ==
    IF t.sampleable /\ t.mLevelCount > 1
    THEN LET range == t.mLodRange
             lastLod == baseLevel + levelCount
         IN  IF range.first > baseLevel \/ range.last < lastLod
             THEN [t EXCEPT !.mLodRange =
                      IF empty(range) THEN LodRange(baseLevel, lastLod)
                      ELSE LodRange(Min(range.first, baseLevel),
                                    Max(range.last, lastLod))]
             ELSE t
    ELSE t

\* the texture as an operation leaves it that ends at a failed
\* FILAMENT_CHECK_PRECONDITION or assertion: nothing has been changed
Rejected(op, ends) ==
    /\ texture' = [texture EXCEPT !.op = op, !.panic = ends,
                                  !.result = NullHandle]
    /\ driver' = driver

\* the operations are made on a texture that exists in a process that runs
Usable == texture.built /\ ~texture.terminated /\ ~texture.panic

\* FTexture::FTexture(engine, builder), in a build with or without
\* assertions
FTexture(builder, assertions) ==
    LET t == [NoTexture EXCEPT
                !.op = "FTexture", !.built = TRUE, !.assertions = assertions,
                !.mExternal = builder.mExternal,
                !.mTextureIsSwizzled = builder.mTextureIsSwizzled,
                !.imported = builder.imported,
                !.mTarget = builder.mTarget,
                !.mLevelCount = builder.mLevels,
                !.mWidth = IF builder.onePixel THEN 1 ELSE 2 ^ (builder.mLevels - 1),
                !.mHeight = IF builder.onePixel THEN 1 ELSE 2 ^ (builder.mLevels - 1),
                !.sampleable = builder.sampleable,
                !.uploadable = builder.uploadable]
    IN
    /\ ~texture.built
    /\ IF t.mExternal /\ ~t.imported
       THEN \* mHandle and mHandleForSampling will be created in setExternalImage()
            /\ texture' = t
            /\ driver' = driver
       ELSE LET created == createHandle(driver)
                d == IF t.mTextureIsSwizzled THEN swizzled(created) ELSE created
            IN  /\ texture' = [t EXCEPT !.mHandle = d.created,
                                        !.mHandleForSampling = d.created]
                /\ driver' = d
    /\ UNCHANGED << pipelineVars, blobVars, programVars, handleVars, toolVars >>

\* FTexture::terminate
terminate ==
    /\ Usable
    /\ LET after == setHandles(texture, driver, NullHandle)
       IN  /\ texture' = [after.texture EXCEPT !.op = "terminate", !.terminated = TRUE,
                                               !.result = NullHandle]
           /\ driver' = after.driver
    /\ UNCHANGED << pipelineVars, blobVars, programVars, handleVars, toolVars >>

\* the end of both setImage: updateLodRange(level), which asserts !mExternal
UpdatedAfterImage(op, level) ==
    IF texture.mExternal /\ texture.assertions
    THEN Rejected(op, TRUE)
    ELSE /\ texture' = [updateLodRange(texture, level, 1) EXCEPT
                           !.op = op, !.result = NullHandle]
         /\ driver' = driver

\* FTexture::setImage(engine, level, xoffset, ..., p); accepted tells
\* whether the region and the buffer pass the checks made of them
setImage(level, accepted) ==
    /\ Usable
    /\ IF /\ accepted
          /\ ~texture.mStream
          /\ level < texture.mLevelCount
          /\ ~texture.mExternal
          /\ texture.uploadable
       THEN UpdatedAfterImage("setImage", level)
       ELSE Rejected("setImage", FALSE)
    /\ UNCHANGED << pipelineVars, blobVars, programVars, handleVars, toolVars >>

\* FTexture::setImage(engine, level, buffer, faceOffsets)
setImageFaces(level, accepted) ==
    /\ Usable
    /\ IF /\ accepted
          /\ ~texture.mStream
          /\ level < texture.mLevelCount
          /\ texture.mTarget = "SAMPLER_CUBEMAP"
       THEN UpdatedAfterImage("setImageFaces", level)
       ELSE Rejected("setImageFaces", FALSE)
    /\ UNCHANGED << pipelineVars, blobVars, programVars, handleVars, toolVars >>

\* the handle setExternalImage and setExternalStream create, with the
\* swizzle view in its place for a swizzled texture, handed to setHandles
ReplacedHandles(op, stream) ==
    LET created == createHandle(driver)
        d == IF texture.mTextureIsSwizzled THEN swizzled(created) ELSE created
        after == setHandles(texture, d, d.created)
    IN  /\ d.created <= MaxHandles
        /\ texture' = [after.texture EXCEPT !.op = op, !.mStream = stream,
                                            !.result = NullHandle]
        /\ driver' = after.driver

\* FTexture::setExternalImage, each of the three
setExternalImage ==
    /\ Usable
    /\ IF texture.mExternal
       THEN ReplacedHandles("setExternalImage", texture.mStream)
       ELSE Rejected("setExternalImage", TRUE)
    /\ UNCHANGED << pipelineVars, blobVars, programVars, handleVars, toolVars >>

\* FTexture::setExternalStream(engine, stream), hasStream telling whether
\* stream is not null
setExternalStream(hasStream) ==
    /\ Usable
    /\ IF texture.mExternal
       THEN ReplacedHandles("setExternalStream", hasStream)
       ELSE Rejected("setExternalStream", TRUE)
    /\ UNCHANGED << pipelineVars, blobVars, programVars, handleVars, toolVars >>

\* FTexture::generateMipmaps, formatMipmappable being the driver's answer
generateMipmaps(formatMipmappable) ==
    /\ Usable
    /\ IF texture.mExternal \/ texture.mTarget = "SAMPLER_3D" \/ ~formatMipmappable
       THEN Rejected("generateMipmaps", TRUE)
       ELSE IF texture.mLevelCount < 2 \/ (texture.mWidth = 1 /\ texture.mHeight = 1)
       THEN /\ texture' = [texture EXCEPT !.op = "generateMipmaps",
                                          !.result = NullHandle]
            /\ driver' = driver
       ELSE /\ texture' = [updateLodRange(texture, 0, texture.mLevelCount) EXCEPT
                              !.op = "generateMipmaps", !.result = NullHandle]
            /\ driver' = driver
    /\ UNCHANGED << pipelineVars, blobVars, programVars, handleVars, toolVars >>

\* FTexture::getHwHandleForSampling
getHwHandleForSampling ==
    /\ Usable
    /\ LET range == texture.mLodRange
           lodRangeChanged == texture.mActiveLodRange # range
           activated == [texture EXCEPT !.mActiveLodRange = range]
           after ==
              IF texture.mExternal /\ texture.mHandleForSampling = NullHandle
              THEN \* createPlaceholderTexture
                   LET d == createHandle(driver)
                   IN  setHandleForSampling(texture, d, d.created)
              ELSE IF ~lodRangeChanged
              THEN Pair([texture EXCEPT !.result = texture.mHandleForSampling], driver)
              ELSE IF empty(range) \/ hasAllLods(texture, range)
              THEN setHandleForSampling(activated, driver, texture.mHandle)
              ELSE LET d == createHandle(driver)
                   IN  setHandleForSampling(activated, d, d.created)
       IN  /\ after.driver.created <= MaxHandles
           /\ texture' = [after.texture EXCEPT !.op = "getHwHandleForSampling"]
           /\ driver' = after.driver
    /\ UNCHANGED << pipelineVars, blobVars, programVars, handleVars, toolVars >>

InitTexture ==
    /\ InitCache /\ identity = NoIdentity /\ memory = NoCallerData
    /\ IdleBlobCache /\ IdleProgram /\ IdleUnits

NextTexture ==
    \/ \E builder \in TextureBuilders, assertions \in BOOLEAN :
          FTexture(builder, assertions)
    \/ terminate
    \/ \E level \in 0..MaxLevels, accepted \in BOOLEAN : setImage(level, accepted)
    \/ \E level \in 0..MaxLevels, accepted \in BOOLEAN : setImageFaces(level, accepted)
    \/ setExternalImage
    \/ \E hasStream \in BOOLEAN : setExternalStream(hasStream)
    \/ \E formatMipmappable \in BOOLEAN : generateMipmaps(formatMipmappable)
    \/ getHwHandleForSampling

SpecTexture == InitTexture /\ [][NextTexture]_vars

(***************************************************************************)
(* The cache with the Descriptor as it is laid out: a vertex buffer layout *)
(* holds the address of its attribute array and a constant the address of  *)
(* its name, and the copy of a Descriptor the map stores holds the same    *)
(* addresses.  A stored key is the pair of the Descriptor given and the    *)
(* number of the device call that built its pipeline.                      *)
(***************************************************************************)
\* the device calls served in these runs
MaxAliasedPipelines == 2

\* the addresses of the caller's attribute arrays and constant names
AttributeArrays == {"attributesA", "attributesB"}
ConstantNames == {"nameA"}

\* what an attribute array can hold, a content being named by its position
\* in this list, and what a name can hold
ArrayContents ==
    << << Attribute(1, 0, 0), Attribute(2, 4, 1) >>,
       << Attribute(3, 0, 0), Attribute(2, 4, 1) >> >>
ArrayValues == DOMAIN ArrayContents
NameValues == {1, 2}

\* the value left where an object was destroyed
Destroyed == 0

\* a Descriptor of the caller: BaseRequirements without a fragment shader,
\* its one active layout pointing at attributes and its one constant named
\* by key
Requirements(attributes, key) == [attributes |-> attributes, key |-> key]

AliasedInputs ==
    {Requirements(attributes, key) :
        attributes \in AttributeArrays, key \in ConstantNames}

\* what a read of every address can yield: the value held while the object
\* is alive, anything once it is destroyed
ReadingsOf(objects, values) ==
    {seen \in [DOMAIN objects -> values] :
        \A a \in DOMAIN seen : objects[a].live => seen[a] = objects[a].value}

Readings ==
    {[arrays |-> arrays, names |-> names] :
        arrays \in ReadingsOf(memory.arrays, ArrayValues),
        names \in ReadingsOf(memory.names, NameValues)}

\* what Hash and Equal read through the addresses Descriptor r holds
Pointee(r, seen) ==
    [attributes |-> seen.arrays[r.attributes], key |-> seen.names[r.key]]

\* the Descriptors Hash and Equal can read
Pointees == [attributes : ArrayValues, key : NameValues]

\* the Descriptor read, in full
Read(p) ==
    [BaseRequirements EXCEPT
        !.fragmentShaderModule = 0,
        !.vertexBufferLayouts[1].attributes = ArrayContents[p.attributes],
        !.constants = << Constant(p.key, 0) >>]

\* Hash and Equal of the Descriptors read, computed once, by array content
\* and name
Pointed(attributes, key) == [attributes |-> attributes, key |-> key]

HashTable ==
    [a \in ArrayValues |-> [n \in NameValues |-> Hash(Read(Pointed(a, n)))]]
EqualTable ==
    [a \in ArrayValues |-> [n \in NameValues |->
        [b \in ArrayValues |-> [m \in NameValues |->
            Equal(Read(Pointed(a, n)), Read(Pointed(b, m)))]]]]

HashRead(p) == HashTable[p.attributes][p.key]
EqualRead(p, q) == EqualTable[p.attributes][p.key][q.attributes][q.key]

\* the caller's objects at start
InitMemory ==
    \E arrays \in [AttributeArrays -> ArrayValues],
       names \in [ConstantNames -> NameValues] :
        memory = [arrays |-> [a \in AttributeArrays |->
                                [live |-> TRUE, value |-> arrays[a]]],
                  names |-> [a \in ConstantNames |->
                               [live |-> TRUE, value |-> names[a]]]]

\* mRenderPipelines.find(reqs) with what the reads yield: the bucket of a
\* stored key is that of the hash it had when it was inserted
findAliased(map, reqs, seen) ==
    LET requested == Pointee(reqs, seen)
        equalKeys == {k \in DOMAIN map : EqualRead(Pointee(k[1], seen), requested)}
        sameHash == {k \in equalKeys : history[k].hash = HashRead(requested)}
    IN  {{k} : k \in equalKeys} \cup (IF sameHash = {} THEN {{}} ELSE {})

\* the record of a call on this cache
AliasedCall(reqs, requested, found) ==
    [op |-> "getOrCreate", reqs |-> reqs, requested |-> requested, found |-> found,
     constructed |-> FALSE, built |-> 0, result |-> 0]

\* WebGPUPipelineCache::getOrCreateRenderPipeline, reqs pointing at objects
\* that are alive
getOrCreateRenderPipelineAliased(reqs) ==
    /\ alive
    /\ memory.arrays[reqs.attributes].live /\ memory.names[reqs.key].live
    /\ \E seen \in Readings :
       \E pipelineIter \in findAliased(mRenderPipelines, reqs, seen) :
          LET requested == Pointee(reqs, seen) IN
          IF pipelineIter # {}
          THEN LET key == CHOOSE k \in pipelineIter : TRUE IN
               /\ mRenderPipelines' =
                     [mRenderPipelines EXCEPT ![key] = HitStamp(mRenderPipelines[key])]
               /\ last' = [AliasedCall(reqs, requested, pipelineIter) EXCEPT
                              !.result = mRenderPipelines[key].pipeline]
               /\ UNCHANGED << alive, device, history >>
          ELSE /\ device < MaxAliasedPipelines
               /\ \E pipeline \in createRenderPipeline(Read(requested), device + 1) :
                     IF pipeline = Panic
                     THEN /\ alive' = FALSE
                          /\ last' = [AliasedCall(reqs, requested, {}) EXCEPT
                                         !.op = "abort"]
                          /\ UNCHANGED << mRenderPipelines, history, device >>
                     ELSE
                     LET key == << reqs, device + 1 >>
                         cacheEntry == NewCacheEntry(pipeline)
                     IN  /\ device' = device + 1
                         /\ mRenderPipelines' =
                               [k \in DOMAIN mRenderPipelines \cup {key} |->
                                  IF k = key THEN cacheEntry ELSE mRenderPipelines[k]]
                         /\ history' =
                               [k \in DOMAIN mRenderPipelines \cup {key} |->
                                  IF k = key
                                  THEN [insertedAs |-> requested,
                                        hash |-> HashRead(requested)]
                                  ELSE history[k]]
                         /\ last' = [AliasedCall(reqs, requested, {}) EXCEPT
                                        !.constructed = TRUE,
                                        !.built = pipeline,
                                        !.result = pipeline]
                         /\ UNCHANGED alive
    /\ UNCHANGED << mGcCount, released, identity, calls, memory, blobVars, programVars,
                    handleVars, toolVars, textureVars >>

\* the caller writes v into one of its attribute arrays or names
Mutate(kind, a, v) ==
    /\ alive
    /\ a \in DOMAIN memory[kind]
    /\ memory[kind][a].live
    /\ v # memory[kind][a].value
    /\ memory' = [memory EXCEPT ![kind][a].value = v]
    /\ last' = NoCall
    /\ UNCHANGED << mGcCount, mRenderPipelines, alive, device, released, history,
                    identity, calls, blobVars, programVars,
                    handleVars, toolVars, textureVars >>

\* the caller destroys one of its attribute arrays or names
Release(kind, a) ==
    /\ alive
    /\ memory[kind][a].live
    /\ memory' = [memory EXCEPT ![kind][a] = [live |-> FALSE, value |-> Destroyed]]
    /\ last' = NoCall
    /\ UNCHANGED << mGcCount, mRenderPipelines, alive, device, released, history,
                    identity, calls, blobVars, programVars,
                    handleVars, toolVars, textureVars >>

InitAliased ==
    /\ InitCache /\ identity = NoIdentity /\ InitMemory
    /\ IdleBlobCache /\ IdleProgram /\ IdleUnits

NextAliased ==
    \/ \E reqs \in AliasedInputs : getOrCreateRenderPipelineAliased(reqs)
    \/ \E a \in AttributeArrays, v \in ArrayValues : Mutate("arrays", a, v)
    \/ \E a \in ConstantNames, v \in NameValues : Mutate("names", a, v)
    \/ \E a \in AttributeArrays : Release("arrays", a)
    \/ \E a \in ConstantNames : Release("names", a)

SpecAliased == InitAliased /\ [][NextAliased]_vars

\* C11: when the device returns a null pipeline for d,
\* getOrCreateRenderPipeline(d) returns null and stores an entry for d holding
\* it; while that entry is stored, a later getOrCreateRenderPipeline(d) builds
\* nothing and returns the object of that entry.
NullPipelineCached ==
    [][/\ (GetOrCreateStep /\ last'.constructed /\ last'.built = 0) =>
            /\ last'.result = 0
            /\ last'.reqs \in DOMAIN mRenderPipelines'
            /\ mRenderPipelines'[last'.reqs].pipeline = 0
       /\ \A d \in DOMAIN mRenderPipelines :
            (mRenderPipelines[d].pipeline = 0 /\ GetOrCreateStep /\ last'.reqs = d) =>
                /\ ~last'.constructed
                /\ last'.found = {d}
                /\ last'.result = 0]_vars

\* C12: a null pipeline does not occupy the slot of its Descriptor: while an
\* entry for d holding a null pipeline is stored, getOrCreateRenderPipeline(d)
\* has the device build a pipeline for d again.
NullPipelineRebuiltOnRetry ==
    [][\A d \in DOMAIN mRenderPipelines :
          (mRenderPipelines[d].pipeline = 0 /\ GetOrCreateStep /\ last'.reqs = d) =>
              last'.constructed]_vars

\* the pipelines the stored entries own
StoredPipelines == OwnedPipelines(mRenderPipelines, DOMAIN mRenderPipelines)

\* C13: every pipeline inserted into the map is owned by one entry until it
\* is released, and is released once: by the gc that erases its entry or by
\* the destructor, which releases every stored pipeline whatever its stamp
\* and leaves the map empty.
SingleOwnership ==
    [][LET removed == DOMAIN mRenderPipelines \ DOMAIN mRenderPipelines'
           inserted == DOMAIN mRenderPipelines' \ DOMAIN mRenderPipelines
           dropped == OwnedPipelines(mRenderPipelines, removed)
       IN  /\ released' = released \cup dropped
           /\ dropped \cap released = {}
           /\ removed # {} => last'.op \in {"gc", "destroy"}
           /\ \A k \in DOMAIN mRenderPipelines \ removed :
                 mRenderPipelines'[k].pipeline = mRenderPipelines[k].pipeline
           /\ \A k \in inserted :
                 mRenderPipelines'[k].pipeline # 0 =>
                    /\ mRenderPipelines'[k].pipeline \notin released'
                    /\ \A j \in DOMAIN mRenderPipelines' \ {k} :
                          mRenderPipelines'[j].pipeline # mRenderPipelines'[k].pipeline
           /\ last'.op = "destroy" =>
                 /\ mRenderPipelines' = << >>
                 /\ released' = released \cup StoredPipelines]_vars

\* C13 witness: the destructor has run on a map holding one entry, after a
\* gc beyond the age limit, and both pipelines the device built are released:
\* one by gc, the other, still within the age limit, by the destructor.
ReleasedByGcAndDestructor ==
    /\ last.op = "destroy"
    /\ Cardinality(last.erased) = 1
    /\ mGcCount > FWGPU_PIPELINE_MAX_AGE
    /\ device = 2
    /\ released = {1, 2}

\* the generation of the last use of the entry stored under k: its creation
\* or its last hit
LastUse(k) ==
    IF history[k].hitAt > history[k].createdAt
    THEN history[k].hitAt ELSE history[k].createdAt

\* no entry is stored that was last used at generation 0
NoneIdleSinceStart == \A k \in DOMAIN mRenderPipelines : LastUse(k) > 0

\* C14: a gc that sets the counter beyond the last use of an entry plus
\* FWGPU_PIPELINE_MAX_AGE erases the entry and releases its pipeline, so no
\* stored entry has been idle for more than FWGPU_PIPELINE_MAX_AGE
\* generations; and while gc keeps being called, the entries last used at
\* generation 0 are eventually gone for good: each is erased unless it is hit
\* in a later generation.
EventualEviction ==
    /\ [][(GcStep =>
              \A k \in DOMAIN mRenderPipelines :
                  (mGcCount' > LastUse(k) + FWGPU_PIPELINE_MAX_AGE) =>
                      /\ k \notin DOMAIN mRenderPipelines'
                      /\ mRenderPipelines[k].pipeline # 0 =>
                            mRenderPipelines[k].pipeline \in released')
           /\ (\A j \in DOMAIN mRenderPipelines' :
                  mGcCount' <= LastUse(j)' + FWGPU_PIPELINE_MAX_AGE)]_vars
    /\ <>[]NoneIdleSinceStart

\* C14 witness: the gc that sets the counter to FWGPU_PIPELINE_MAX_AGE + 1 has
\* erased an idle entry and released its pipeline, and has kept an entry whose
\* last use lies exactly FWGPU_PIPELINE_MAX_AGE generations back.
IdleEntryEvictedOnTime ==
    /\ last.op = "gc"
    /\ mGcCount = FWGPU_PIPELINE_MAX_AGE + 1
    /\ last.erased # {}
    /\ released # {}
    /\ \E k \in DOMAIN mRenderPipelines :
          mGcCount = LastUse(k) + FWGPU_PIPELINE_MAX_AGE

(***************************************************************************)
(* Properties of calls that are not serialized (checked under              *)
(* SpecInterleaved).                                                       *)
(***************************************************************************)
\* caller t has completed a call in which its lookup missed
MissedAndDone(t) == calls[t].pc = "done" /\ calls[t].callNo > 0

\* both callers have completed a call for the same Descriptor, and both
\* lookups missed: neither entry was inserted before the other's lookup
BothMissed ==
    /\ \A t \in Callers : MissedAndDone(t)
    /\ calls[1].reqs = calls[2].reqs

\* C15: when two getOrCreateRenderPipeline(d) calls interleave so that both
\* lookups miss, the device builds twice, and afterwards the map holds one
\* entry for d, with the pipeline of the call whose emplace came first; the
\* pipeline of the other call is discarded and stored nowhere; no emplace
\* changes or removes another entry.
ConcurrentMissesKeepOne ==
    [][/\ (\E t \in Callers : calls[t].pc = "emplace" /\ calls'[t].pc = "done") =>
            \A k \in DOMAIN mRenderPipelines :
                /\ k \in DOMAIN mRenderPipelines'
                /\ mRenderPipelines'[k] = mRenderPipelines[k]
       /\ BothMissed' =>
            LET d == calls'[1].reqs IN
            /\ calls'[1].callNo # calls'[2].callNo
            /\ d \in DOMAIN mRenderPipelines'
            /\ calls'[1].emplaced # calls'[2].emplaced
            /\ \A t \in Callers :
                  IF calls'[t].emplaced
                  THEN /\ mRenderPipelines'[d].pipeline = calls'[t].pipeline
                       /\ calls'[t].discarded = 0
                  ELSE /\ calls'[t].discarded = calls'[t].pipeline
                       /\ calls'[t].pipeline # 0 =>
                             \A k \in DOMAIN mRenderPipelines' :
                                 mRenderPipelines'[k].pipeline # calls'[t].pipeline]_vars

\* C15 witness: both callers have missed on the same Descriptor and built a
\* pipeline each, with an entry of another Descriptor stored.
TwoMissesBesideAnotherEntry ==
    /\ BothMissed
    /\ calls[1].pipeline # 0 /\ calls[2].pipeline # 0
    /\ Cardinality(DOMAIN mRenderPipelines) > 1

(***************************************************************************)
(* Properties of the OpenGL blob cache (checked under SpecBlob).           *)
(***************************************************************************)
\* a retrieve call has just returned
Retrieved == blobCall.op = "retrieve"

\* C16: when the driver has no program binary format or the platform has no
\* retrieve function, retrieve returns a null blob, calls the platform's
\* retrieve function not once, and leaves the caller's key and size as they
\* were.
UnsupportedRetrieveIsAbsent ==
    (Retrieved /\ (~mCachingSupported \/ ~platform.hasRetrieveBlobFunc)) =>
        /\ blobCall.blob.null
        /\ blobCall.retrieveCalls = << >>
        /\ blobCall.outKey = EmptyKey
        /\ blobCall.outSize = PriorSize

\* C16 witness: retrieve has returned, with both output pointers given, on a
\* driver with binary formats and a platform that has no retrieve function
\* but a stored value.
RetrievedWithoutRetrieveFunc ==
    /\ Retrieved
    /\ blobCall.outKeyGiven /\ blobCall.outSizeGiven
    /\ mCachingSupported /\ ~platform.hasRetrieveBlobFunc
    /\ platform.store # << >>

\* C17: retrieve calls the platform's retrieve function at most twice; the
\* first call has a buffer of DEFAULT_BLOB_SIZE; there is a second call
\* exactly when the first reported a larger size, and its buffer, which is
\* the one returned, has the size the first call reported.
ResizeRetryProtocol ==
    (Retrieved /\ RetrieveSupported) =>
        LET n == Len(blobCall.retrieveCalls) IN
        /\ n \in {1, 2}
        /\ blobCall.retrieveCalls[1].valueSize = DEFAULT_BLOB_SIZE
        /\ (n = 2) <=> (blobCall.retrieveCalls[1].reported > DEFAULT_BLOB_SIZE)
        /\ (n = 2) =>
              /\ blobCall.retrieveCalls[2].valueSize = blobCall.retrieveCalls[1].reported
              /\ blobCall.blob.capacity = blobCall.retrieveCalls[1].reported

\* C17 witness: the second call has reported a size larger than its buffer,
\* and retrieve has returned without a third call.
RetryReportedLargerStill ==
    /\ Retrieved
    /\ Len(blobCall.retrieveCalls) = 2
    /\ blobCall.retrieveCalls[2].reported > blobCall.retrieveCalls[2].valueSize

\* C18: when the platform reports 0 or a negative size, retrieve returns a
\* null blob after that one call.
ZeroSizeIsAbsent ==
    (/\ Retrieved /\ RetrieveSupported
     /\ blobCall.retrieveCalls[1].delivered.size <= 0) =>
        /\ blobCall.blob.null
        /\ Len(blobCall.retrieveCalls) = 1

\* C19: when the value stored under the key is larger than
\* DEFAULT_BLOB_SIZE, the returned buffer has the size reported through
\* outSize and holds the whole value the platform delivered in the second
\* call, a value of that size.
RetryReturnsFullPayload ==
    (/\ Retrieved /\ RetrieveSupported /\ blobCall.outSizeGiven
     /\ blobCall.retrieveCalls[1].delivered.size > DEFAULT_BLOB_SIZE) =>
        /\ Len(blobCall.retrieveCalls) = 2
        /\ ~blobCall.blob.null
        /\ blobCall.blob.capacity = blobCall.outSize
        /\ blobCall.blob.content = blobCall.retrieveCalls[2].delivered
        /\ blobCall.blob.content.size = blobCall.outSize

\* C20: createProgram returns a program other than 0 exactly when the load
\* of the program binary raised no driver error and the program's link
\* status is true.
CreateProgramIffBothSignals ==
    blobCall.op = "createProgram" =>
        ((blobCall.programId # 0) <=>
            (blobCall.loadError = GL_NO_ERROR /\ blobCall.linked))

\* a createProgram call has just returned
ProgramCreated == blobCall.op = "createProgram"

\* C21: when createProgram meets a driver error or a false link status it
\* deletes the program it created, once, returns 0 and logs; when it returns
\* a program it deletes nothing; the programs alive are those createProgram
\* has returned.
FailedProgramDeletedOnce ==
    /\ ProgramCreated =>
          /\ (blobCall.loadError # GL_NO_ERROR \/ ~blobCall.linked) =>
                blobCall.programId = 0
          /\ blobCall.programId = 0 =>
                /\ blobCall.deleted = << blobCall.created >>
                /\ blobCall.logged
                /\ blobCall.created \notin gl.live
          /\ blobCall.programId # 0 =>
                /\ blobCall.programId = blobCall.created
                /\ blobCall.deleted = << >>
                /\ blobCall.programId \in gl.live
    /\ Cardinality(gl.live) <= gl.created

\* C21 witness: a program binary was accepted without error but did not
\* link, and createProgram has returned 0, with a program of an earlier
\* call alive.
UnlinkedProgramDeleted ==
    /\ ProgramCreated
    /\ blobCall.programId = 0
    /\ blobCall.pendingError = GL_NO_ERROR
    /\ blobCall.loadError = GL_NO_ERROR /\ ~blobCall.linked
    /\ gl.live # {}

\* a step of insert
InsertStep == blobCall'.op = "insert"

\* C22: when the driver has no program binary format or the platform has no
\* insert function, insert makes no driver query and no platform call and
\* changes neither the blob store nor the GL context.
UnsupportedInsertIsNoOp ==
    [][(InsertStep /\ (~mCachingSupported \/ ~platform.hasInsertBlobFunc)) =>
          /\ blobCall'.sizeQueries = 0
          /\ blobCall'.insertCalls = << >>
          /\ platform' = platform
          /\ gl' = gl
          /\ mCachingSupported' = mCachingSupported]_vars

\* C22 witness: insert has returned on a driver with binary formats and a
\* platform that has a retrieve function but no insert function.
InsertedWithoutInsertFunc ==
    /\ blobCall.op = "insert"
    /\ mCachingSupported
    /\ platform.hasRetrieveBlobFunc /\ ~platform.hasInsertBlobFunc

\* C23: on the supported path insert queries the driver for the binary size
\* once; when the size is not 0 and glGetProgramBinary raises no error, it
\* calls the platform's insert function once, with the key given and a value
\* of SizeofBlob + size bytes that carries the format the driver reported,
\* and the store holds that value afterwards; when the size is 0 nothing is
\* stored.
InsertStoresBinary ==
    [][(InsertStep /\ InsertSupported) =>
          /\ blobCall'.sizeQueries = 1
          /\ (blobCall'.programBinarySize # 0 /\ blobCall'.loadError = GL_NO_ERROR) =>
                /\ blobCall'.insertCalls =
                      << [key |-> blobCall'.key,
                          size |-> SizeofBlob + blobCall'.programBinarySize,
                          format |-> blobCall'.binaryFormat] >>
                /\ blobCall'.key \in DOMAIN platform'.store
                /\ platform'.store[blobCall'.key] =
                      StoredBlob(SizeofBlob + blobCall'.programBinarySize,
                                 blobCall'.binaryFormat)
          /\ blobCall'.programBinarySize = 0 =>
                /\ blobCall'.insertCalls = << >>
                /\ platform' = platform]_vars

\* C24: an insert during which the driver raises an error, in the size query
\* or in glGetProgramBinary, does not call the platform's insert function,
\* logs and returns nothing, and leaves the store as it was.
InsertErrorAbortsSilently ==
    [][(InsertStep /\ InsertSupported /\ blobCall'.loadError # GL_NO_ERROR) =>
          /\ blobCall'.insertCalls = << >>
          /\ ~blobCall'.logged
          /\ blobCall'.programId = 0
          /\ platform' = platform]_vars

\* an insert whose extraction failed, beside a value stored before
ExtractionFailedBesideStoredValue ==
    /\ blobCall.op = "insert"
    /\ blobCall.programBinarySize # 0
    /\ blobCall.loadError = GL_INVALID_OPERATION
    /\ blobCall.pendingError = GL_NO_ERROR
    /\ blobCall.key \in DOMAIN platform.store

\* a retrieve call is returning
RetrieveStep == blobCall'.op = "retrieve"

\* C25: on the supported path retrieve outputs, on a miss and on a hit, the
\* key made of the program's cache id followed by its specialization
\* constants; and when the call before was an insert that stored a value
\* under the key a missing retrieve had output, and nothing else writes the
\* store, retrieve for a program with that cache id and those constants
\* returns the value inserted and its full size.
KeyRoundTrip ==
    [][(RetrieveStep /\ RetrieveSupported) =>
          /\ blobCall'.outKeyGiven =>
                blobCall'.outKey = << blobCall'.program.cacheId >>
                                     \o blobCall'.program.specializationConstants
          /\ (/\ blobCall'.inserted # << >>
              /\ blobCall'.outSizeGiven
              /\ platform'.store = platform.store) =>
                /\ ~blobCall'.blob.null
                /\ blobCall'.blob.content =
                      StoredBlob(blobCall'.inserted[1].size,
                                 blobCall'.inserted[1].format)
                /\ blobCall'.outSize = blobCall'.inserted[1].size]_vars

\* a program of another name gets back what was inserted under the key a
\* missing retrieve had output
RoundTripByAnotherProgram ==
    /\ Retrieved
    /\ blobCall.program.name = "c"
    /\ blobCall.outKeyGiven /\ blobCall.outSizeGiven
    /\ blobCall.inserted # << >>
    /\ blobCall.outKey = blobCall.inserted[1].key
    /\ blobCall.outSize = blobCall.inserted[1].size
    /\ blobCall.blob.content.size = blobCall.outSize

\* C26: getOrCreateRenderPipeline returns to its caller for every permitted
\* Descriptor, one without a vertex shader module included, and for every
\* outcome of the construction, and the conditions createRenderPipeline
\* asserts are true of the Descriptor whenever it is called.
NoFailureAbortsTheCaller ==
    /\ last.op # "abort"
    /\ last.constructed => InvariantsAsserted(PermittedInputs[last.reqs])

\* C27: when the wait for the compilation info times out, createShaderModule
\* returns the module without stopping the process and has logged the
\* timeout.
TimeoutLoggedWithoutCrash ==
    (shaderCall.op = "createShaderModule" /\ shaderCall.waitStatus = "TimedOut") =>
        /\ shaderCall.returned
        /\ shaderCall.panic = ""
        /\ shaderCall.log # << >>

\* the active layouts of a and b are the same and so is every channel other
\* than the layout list
AgreeUpToInactiveLayouts(a, b) ==
    /\ a.vertexBufferCount = b.vertexBufferCount
    /\ \A i \in 1..a.vertexBufferCount :
          a.vertexBufferLayouts[i] = b.vertexBufferLayouts[i]
    /\ [a EXCEPT !.vertexBufferLayouts = b.vertexBufferLayouts] = b

\* C28: two Descriptors with different vertexBufferCount, or with the same
\* count and an active layout of different attributeCount, compare unequal;
\* two Descriptors that agree on vertexBufferCount, on the active layouts and
\* on every other channel compare equal and have the same hash, whatever
\* their layout slots beyond the count hold.
ActivePrefixOnly ==
    identity.done =>
        LET first == identity.first
            second == identity.second
        IN  /\ first.vertexBufferCount # second.vertexBufferCount => ~identity.equal
            /\ (/\ first.vertexBufferCount = second.vertexBufferCount
                /\ \E i \in 1..first.vertexBufferCount :
                      first.vertexBufferLayouts[i].attributeCount
                        # second.vertexBufferLayouts[i].attributeCount) =>
                  ~identity.equal
            /\ AgreeUpToInactiveLayouts(first, second) =>
                  /\ identity.equal
                  /\ identity.hashFirst = identity.hashSecond

\* two Descriptors that differ in a layout slot beyond the count only
DifferInInactiveSlotOnly ==
    /\ identity.done
    /\ identity.first # identity.second
    /\ AgreeUpToInactiveLayouts(identity.first, identity.second)
    /\ identity.first.vertexBufferCount >= 1
    /\ identity.equal

\* a call on the cache whose Descriptors hold addresses is returning
AliasedStep == last' # last /\ last'.op = "getOrCreate" /\ memory # NoCallerData

\* C29: the lookups that hit a stored entry are decided by what its key was
\* when it was inserted, whatever the caller has done since to the objects
\* the key points at: a lookup hits an entry only if its Descriptor is Equal
\* to the one the entry was inserted as, and it does not miss while an entry
\* inserted as an Equal Descriptor of the same hash is stored.
StoredKeyIdentityStable ==
    [][AliasedStep =>
          /\ \A k \in last'.found :
                EqualRead(history[k].insertedAs, last'.requested)
          /\ last'.found = {} =>
                ~\E k \in DOMAIN mRenderPipelines :
                    /\ EqualRead(history[k].insertedAs, last'.requested)
                    /\ history[k].hash = HashRead(last'.requested)]_vars

\* C30: mGcCount changes only in gc, which adds one to it, and the
\* lastGcCountWhenUsed of every stored entry is at most mGcCount in every
\* state.
GenerationBoundsStamps ==
    /\ [](\A k \in DOMAIN mRenderPipelines :
             mRenderPipelines[k].lastGcCountWhenUsed <= mGcCount)
    /\ [][/\ mGcCount' # mGcCount => last'.op = "gc"
          /\ last'.op = "gc" => mGcCount' = mGcCount + 1]_vars

\* an entry hit after the last gc, beside one stamped before it
StampedInLaterGeneration ==
    /\ last.op = "getOrCreate" /\ last.found # {}
    /\ mGcCount >= 2
    /\ \E k \in DOMAIN mRenderPipelines :
          mRenderPipelines[k].lastGcCountWhenUsed = mGcCount
    /\ \E k \in DOMAIN mRenderPipelines :
          mRenderPipelines[k].lastGcCountWhenUsed < mGcCount

\* C31: in every state of the cache used by one caller, no two stored keys
\* are Equal to each other.
NoTwoEqualEntries ==
    \A k1 \in DOMAIN mRenderPipelines :
       \A k2 \in DOMAIN mRenderPipelines : k1 # k2 => ~EqualOf[k1][k2]

\* C32: a driver error raised before createProgram and still pending when
\* it is called does not make createProgram return 0 for a blob whose load
\* raises no error and whose program links.
PendingErrorNeverRejects ==
    (/\ ProgramCreated
     /\ blobCall.pendingError # GL_NO_ERROR
     /\ blobCall.loadError = GL_NO_ERROR
     /\ blobCall.linked) => blobCall.programId # 0

\* C33: the length createProgram passes to glProgramBinary is the blobSize
\* it was given minus sizeof(Blob), and it is not negative, for every
\* blobSize retrieve outputs together with a blob.
PayloadLengthNeverWraps ==
    ProgramCreated =>
        /\ blobCall.programBinarySize = blobCall.blobSize - SizeofBlob
        /\ blobCall.programBinarySize >= 0

\* C34: in the source of every stage a WGPUProgram holds a module of, each
\* declaration of a constant whose id the Program supplies holds the value
\* the Program supplies for that id.
OverridesAreProgramValues ==
    \A stage \in ShaderStages :
       LET processed == wgpuProgram.stages[stage].processedShaderSource
           supplied == toMap(wgpuProgram.given)
       IN  \A i \in DOMAIN processed :
              (/\ wgpuProgram.stages[stage].module # 0
               /\ processed[i].kind = "declaration"
               /\ processed[i].id \in DOMAIN supplied) =>
                  LiteralValue(processed[i].literal) = supplied[processed[i].id]

\* the element type a normalized format is required for: its base type and
\* its number of components
BaseType(type) ==
    CASE type \in {"BYTE", "BYTE2", "BYTE3", "BYTE4"} -> "BYTE"
      [] type \in {"UBYTE", "UBYTE2", "UBYTE3", "UBYTE4"} -> "UBYTE"
      [] type \in {"SHORT", "SHORT2", "SHORT3", "SHORT4"} -> "SHORT"
      [] type \in {"USHORT", "USHORT2", "USHORT3", "USHORT4"} -> "USHORT"
      [] OTHER -> "other"

ComponentCount(type) ==
    CASE type \in {"BYTE", "UBYTE", "SHORT", "USHORT"} -> 1
      [] type \in {"BYTE2", "UBYTE2", "SHORT2", "USHORT2"} -> 2
      [] type \in {"BYTE3", "UBYTE3", "SHORT3", "USHORT3"} -> 3
      [] type \in {"BYTE4", "UBYTE4", "SHORT4", "USHORT4"} -> 4
      [] OTHER -> 0

\* the name of the normalized wgpu::VertexFormat of a signedness, a width of
\* the component and a number of components
FormatName(f) ==
    LET kind == IF f.signed THEN "Snorm" ELSE "Unorm"
        bits == IF f.bits = 8 THEN "8" ELSE "16"
        count == IF f.components = 1 THEN ""
                 ELSE IF f.components = 2 THEN "x2" ELSE "x4"
    IN  kind \o bits \o count

\* C38: for a normalized element type of one of the base types BYTE, UBYTE,
\* SHORT and USHORT, getVertexFormat returns the normalized format that has
\* the signedness and the component width of the base type and as many
\* components as the type, four for a type of three.
NormalizedFormatMatchesType ==
    (/\ handleCall.op = "getVertexFormat"
     /\ handleCall.normalized
     /\ BaseType(handleCall.type) # "other") =>
        handleCall.format =
            FormatName([signed |-> BaseType(handleCall.type) \in {"BYTE", "SHORT"},
                        bits |-> IF BaseType(handleCall.type) \in {"BYTE", "UBYTE"}
                                 THEN 8 ELSE 16,
                        components |-> IF ComponentCount(handleCall.type) = 3
                                       THEN 4 ELSE ComponentCount(handleCall.type)])

\* C37: convertConstants returns one entry for each constant, in order, the
\* i-th keyed by the text of the i-th id and holding the value of an int32
\* or a float unchanged, 1.0 for true and 0.0 for false.
ConstantsEncodedByKind ==
    handleCall.op = "convertConstants" =>
        /\ DOMAIN handleCall.constants = DOMAIN handleCall.constantsInfo
        /\ \A i \in DOMAIN handleCall.constantsInfo :
              LET given == handleCall.constantsInfo[i]
                  entry == handleCall.constants[i]
              IN  /\ entry.key = to_string(given.id)
                  /\ given.value.type \in {"int32", "float"} =>
                        entry.value = given.value.value
                  /\ given.value = Bool(1) => entry.value = 1
                  /\ given.value = Bool(0) => entry.value = 0

\* C36: transform returns false and leaves the output stream as it was when
\* glslToSpirv or modifySpirv returned the empty vector, and it returns true
\* only when both returned a module.
TransformFailsClosed ==
    [][(transformCall' # transformCall \/ out' # out) =>
          LET failed == \/ transformCall'.spirv = 0
                        \/ transformCall'.modifiedSpirv = 0
          IN  /\ failed => (/\ transformCall'.ended = "returned"
                            /\ ~transformCall'.result
                            /\ out' = out)
              /\ transformCall'.result => ~failed]_vars

\* C35: over the operations of a texture the asserted condition "mHandle is
\* null or mHandleForSampling is not" holds at every setHandles and
\* setHandleForSampling call, destroyTexture is never called for a handle
\* that is not alive, and after terminate no handle created for the texture
\* is alive.
HandlesDestroyedExactlyOnce ==
    /\ texture.asserted
    /\ driver.destroyedDead = {}
    /\ texture.terminated => driver.live \cap driver.owned = {}

\* a texture that has had a placeholder or a LOD view replaced and a handle
\* of its own has been terminated
TerminatedAfterViews ==
    /\ texture.terminated
    /\ driver.created >= 3

====
